---- MODULE Spec2Model ----
(***************************************************************************)
(* Calendar time-layout engine of zahrawiDent/schedule: lane assignment,   *)
(* recurrence expansion, coordinate/snap math, commit math and the         *)
(* interactive preview/commit protocol of the Day and Week views.          *)
(*                                                                         *)
(* Time is counted in whole minutes from midnight of day 0; a day has      *)
(* MinutesPerDay minutes.  Pointer positions are whole pixels measured     *)
(* from the top of the day column; one pixel is 60/ROW_H = 15/16 minute,   *)
(* so fractional minutes are kept exactly as sixteenths ("units").         *)
(***************************************************************************)
EXTENDS Integers, Sequences, FiniteSets, TLC

VARIABLES
    \* ---- utils/lanes ----
    laneIn,      \* the segments passed to assignLanes
    laneOut,     \* the value it returned (called = FALSE before the call)
    \* ---- utils/occurrence ----
    expIn,       \* the events passed to expandEventsForRange
    expRange,    \* <<first day, last day>> of the requested window
    expOut,      \* the outcome of the call
    flIn,        \* the occurrences and options passed to filterEvents
    flOut,       \* the list it returned and the argument list after the call
    \* ---- utils/eventUpdates ----
    cmIn,        \* arguments of a commit-math call
    cmOut,       \* the patch returned
    \* ---- pointer -> minutes ----
    ptIn,        \* a pointer sample and the view's day start hour
    ptOut,       \* the minute values derived from it
    \* ---- Day/Week view gesture protocol ----
    view,        \* "day" | "week": the mounted view
    viewDate,    \* state.viewDate, as a day number
    events,      \* state.events: the store's records, id -> record
    nextId,      \* source of fresh ids (crypto.randomUUID)
    preview,     \* the preview map, base id -> entry
    dragging,    \* the dragging() signal: a base id or Null
    edgeTimer,   \* the edge-navigation interval: 0 (none) or its direction -1 / 1
    g,           \* the gesture in progress (pointer listeners, closures)
    g2,          \* a gesture begun while g is still in progress
    toasts,      \* ui/Toast: the toasts shown, oldest first
    hist         \* history of the current/last gesture, for the properties

laneVars == <<laneIn, laneOut>>
expVars == <<expIn, expRange, expOut>>
flVars == <<flIn, flOut>>
cmVars == <<cmIn, cmOut>>
ptVars == <<ptIn, ptOut>>
gestVars == <<view, viewDate, events, nextId, preview, dragging, edgeTimer, g, g2, toasts, hist>>
vars == <<laneIn, laneOut, expIn, expRange, expOut, flIn, flOut, cmIn, cmOut, ptIn, ptOut,
          view, viewDate, events, nextId, preview, dragging, edgeTimer, g, g2, toasts, hist>>

(***************************************************************************)
(* Program constants                                                       *)
(***************************************************************************)
\* undefined / null
Null == -1
\* 24 * 60
MinutesPerDay == 1440
SNAP_MIN == 15
ROW_H == 64
\* sixteenths of a minute per pixel: 60/ROW_H minute = 15 units
UnitsPerMin == 16
UnitsPerPx == 15
WeekDays == 7
MaxDayIndex == 6

(***************************************************************************)
(* Bounds of the model                                                     *)
(***************************************************************************)
MaxSegs == 3
MaxSegMin == 3
MaxExpEvents == 2
MaxExpDay == 7
PtOutRows == 4
MaxFilterItems == 2
CmOutSteps == 3
MaxGestures == 1
MaxGestRow == 1
MaxNav == 1
MaxKeys == 3
MaxDetach == 2

Min(a, b) == IF a <= b THEN a ELSE b
Max(a, b) == IF a >= b THEN a ELSE b

(***************************************************************************)
(* utils/lanes: assignLanes                                                *)
(***************************************************************************)
Seg(id, s, e) == [id |-> id, startMins |-> s, endMins |-> e]

\* .filter((s) => s.endMins > s.startMins)
RECURSIVE FilterPositive(_)
FilterPositive(segs) ==
    IF segs = <<>> THEN <<>>
    ELSE LET h == Head(segs) IN
         IF h.endMins > h.startMins THEN <<h>> \o FilterPositive(Tail(segs))
         ELSE FilterPositive(Tail(segs))

\* (a, b) => (a.startMins - b.startMins) || a.id.localeCompare(b.id)
SegCompare(a, b) ==
    IF a.startMins # b.startMins THEN a.startMins - b.startMins
    ELSE IF a.id < b.id THEN -1 ELSE IF a.id > b.id THEN 1 ELSE 0

\* Array.prototype.sort is stable: x goes after every element not greater than it
RECURSIVE InsertSorted(_, _)
InsertSorted(x, sorted) ==
    IF sorted = <<>> THEN <<x>>
    ELSE IF SegCompare(Head(sorted), x) <= 0
         THEN <<Head(sorted)>> \o InsertSorted(x, Tail(sorted))
         ELSE <<x>> \o sorted

\* a sort that leaves the list as it is
MutSortSegs(segs) == segs

RECURSIVE SortSegs(_)
SortSegs(segs) ==
    IF segs = <<>> THEN <<>>
    ELSE InsertSorted(segs[Len(segs)], SortSegs(SubSeq(segs, 1, Len(segs) - 1)))

\* a wrong reuse test: compares the lane's end with the segment's end
MutCanReuse(laneEnd, seg) == laneEnd <= seg.endMins

\* if (laneEnds[i] <= seg.startMins)
CanReuse(laneEnd, seg) == laneEnd <= seg.startMins

\* an inner loop that takes the last reusable lane
MutFirstFreeLane(laneEnds, seg) ==
    LET free == {i \in 1..Len(laneEnds) : CanReuse(laneEnds[i], seg)} IN
    IF free = {} THEN 0 ELSE CHOOSE i \in free : \A j \in free : i >= j

\* the inner for loop: the first reusable lane, or 0 when none is
FirstFreeLane(laneEnds, seg) ==
    LET free == {i \in 1..Len(laneEnds) : CanReuse(laneEnds[i], seg)} IN
    IF free = {} THEN 0 ELSE CHOOSE i \in free : \A j \in free : i <= j

MapSet(m, k, v) == [x \in (DOMAIN m) \cup {k} |-> IF x = k THEN v ELSE m[x]]

\* the outer for loop over sorted[k..]; lanes are numbered from 0 as in the code
RECURSIVE Sweep(_, _, _, _)
Sweep(sorted, k, laneEnds, laneIdx) ==
    IF k > Len(sorted) THEN [laneEnds |-> laneEnds, laneIndexById |-> laneIdx]
    ELSE LET seg == sorted[k]
             i == FirstFreeLane(laneEnds, seg)
         IN IF i # 0
            THEN Sweep(sorted, k + 1, [laneEnds EXCEPT ![i] = seg.endMins],
                       MapSet(laneIdx, seg.id, i - 1))
            ELSE Sweep(sorted, k + 1, Append(laneEnds, seg.endMins),
                       MapSet(laneIdx, seg.id, Len(laneEnds)))

\* a result whose lane count is the number of lanes, without the floor of 1
MutAssignLanes(segs) ==
    LET sorted == SortSegs(FilterPositive(segs))
        r == Sweep(sorted, 1, <<>>, <<>>)
    IN [called |-> TRUE, sorted |-> sorted, laneIndexById |-> r.laneIndexById,
        laneCount |-> Len(r.laneEnds)]

AssignLanes(segs) ==
    LET sorted == SortSegs(FilterPositive(segs))
        r == Sweep(sorted, 1, <<>>, <<>>)
    IN [called |-> TRUE, sorted |-> sorted, laneIndexById |-> r.laneIndexById,
        laneCount |-> Max(1, Len(r.laneEnds))]

NoLaneResult == [called |-> FALSE, sorted |-> <<>>, laneIndexById |-> <<>>, laneCount |-> 0]

\* inputs: up to MaxSegs segments with minutes in 0..MaxSegMin, appended one at a
\* time; ids are pairwise distinct, ascending or descending with the position
LaneIdOrders == {"asc", "desc"}

NoLaneInput == [order |-> "asc", segs |-> <<>>]

\* the caller builds the argument list
AddSegment ==
    /\ ~laneOut.called
    /\ Len(laneIn.segs) < MaxSegs
    /\ \E s \in 0..MaxSegMin, e \in 0..MaxSegMin :
          LET pos == Len(laneIn.segs) + 1
              id == IF laneIn.order = "asc" THEN pos ELSE MaxSegs + 1 - pos
          IN laneIn' = [laneIn EXCEPT !.segs = Append(@, Seg(id, s, e))]
    /\ UNCHANGED <<laneOut, expVars, flVars, cmVars, ptVars, gestVars>>

\* the documented example: A [0, 120), B [60, 180), C [150, 210)
SketchSegs(order) ==
    LET id(pos) == IF order = "asc" THEN pos ELSE MaxSegs + 1 - pos
    IN <<Seg(id(1), 0, 120), Seg(id(2), 60, 180), Seg(id(3), 150, 210)>>

AddSketch ==
    /\ ~laneOut.called
    /\ laneIn.segs = <<>>
    /\ laneIn' = [laneIn EXCEPT !.segs = SketchSegs(laneIn.order)]
    /\ UNCHANGED <<laneOut, expVars, flVars, cmVars, ptVars, gestVars>>

CallAssignLanes ==
    /\ ~laneOut.called
    /\ laneOut' = AssignLanes(laneIn.segs)
    /\ UNCHANGED <<laneIn, expVars, flVars, cmVars, ptVars, gestVars>>

\* true overlap of two segments
TrueOverlap(a, b) == a.startMins < b.endMins /\ b.startMins < a.endMins

\* C1: after assignLanes on segments with pairwise distinct ids, no two
\* truly overlapping segments of the result have the same lane index.
C1_NoOverlapSharesLane ==
    laneOut.called =>
        \A i, j \in 1..Len(laneOut.sorted) :
            (i # j /\ TrueOverlap(laneOut.sorted[i], laneOut.sorted[j]))
                => laneOut.laneIndexById[laneOut.sorted[i].id]
                     # laneOut.laneIndexById[laneOut.sorted[j].id]

\* a call that placed two overlapping segments, and a touching pair in one lane
C1_Witness ==
    /\ laneOut.called
    /\ \E i, j \in 1..Len(laneOut.sorted) :
          /\ i # j
          /\ TrueOverlap(laneOut.sorted[i], laneOut.sorted[j])
    /\ \E i, j \in 1..Len(laneOut.sorted) :
          /\ laneOut.sorted[i].endMins = laneOut.sorted[j].startMins
          /\ laneOut.laneIndexById[laneOut.sorted[i].id]
               = laneOut.laneIndexById[laneOut.sorted[j].id]

\* the lane given to the k-th segment of the result
LaneAt(k) == laneOut.laneIndexById[laneOut.sorted[k].id]

\* the lanes in use when the k-th segment is placed
LanesBefore(k) == {LaneAt(j) : j \in 1..(k - 1)}

\* the lanes whose most recently placed segment ends at or before the k-th's start
FreeLanes(k) ==
    LET last(l) == CHOOSE j \in 1..(k - 1) :
                       LaneAt(j) = l /\ \A i \in 1..(k - 1) : LaneAt(i) = l => i <= j
    IN {l \in LanesBefore(k) : laneOut.sorted[last(l)].endMins <= laneOut.sorted[k].startMins}

\* C16: the positive-length segments are processed in ascending (startMins, id)
\* order, each gets the lowest lane whose most recently placed segment ends at or
\* before its start (equal counts as free), and a new lane is opened only when
\* there is none.
C16_LowestFreeLane ==
    laneOut.called =>
        LET sorted == laneOut.sorted
            positive == {i \in 1..Len(laneIn.segs) :
                            laneIn.segs[i].endMins > laneIn.segs[i].startMins}
        IN /\ Len(sorted) = Cardinality(positive)
           /\ {sorted[k] : k \in 1..Len(sorted)} = {laneIn.segs[i] : i \in positive}
           /\ \A k \in 1..(Len(sorted) - 1) :
                 \/ sorted[k].startMins < sorted[k + 1].startMins
                 \/ /\ sorted[k].startMins = sorted[k + 1].startMins
                    /\ sorted[k].id < sorted[k + 1].id
           /\ \A k \in 1..Len(sorted) :
                 IF FreeLanes(k) = {}
                 THEN LaneAt(k) = Cardinality(LanesBefore(k))
                 ELSE LaneAt(k) \in FreeLanes(k) /\ \A l \in FreeLanes(k) : LaneAt(k) <= l

\* a second lane was opened, and a later segment that touches the ends of both
\* lanes went to lane 0; the input was not in start order
C16_Witness ==
    /\ laneOut.called
    /\ Len(laneOut.sorted) = 3
    /\ LaneAt(2) = 1
    /\ FreeLanes(3) = {0, 1}
    /\ \E k \in 1..2 : laneOut.sorted[k].endMins = laneOut.sorted[3].startMins
    /\ LaneAt(3) = 0
    /\ laneIn.segs[1].startMins > laneIn.segs[2].startMins

\* C17: laneCount is max(1, number of lanes opened); for an empty input, or one
\* whose segments all have end <= start, the result is laneCount 1 with an empty
\* sorted list and an empty lane map, and no error.
C17_LaneCountAtLeastOne ==
    laneOut.called =>
        /\ laneOut.laneCount
             = Max(1, Cardinality({LaneAt(k) : k \in 1..Len(laneOut.sorted)}))
        /\ (\A i \in 1..Len(laneIn.segs) :
                laneIn.segs[i].endMins <= laneIn.segs[i].startMins)
              => /\ laneOut.laneCount = 1
                 /\ laneOut.sorted = <<>>
                 /\ laneOut.laneIndexById = <<>>

\* a call on an input of only zero-length and negative-length segments
C17_Witness ==
    /\ laneOut.called
    /\ Len(laneIn.segs) >= 2
    /\ \E i \in 1..Len(laneIn.segs) : laneIn.segs[i].endMins = laneIn.segs[i].startMins
    /\ \E i \in 1..Len(laneIn.segs) : laneIn.segs[i].endMins < laneIn.segs[i].startMins
    /\ \A i \in 1..Len(laneIn.segs) : laneIn.segs[i].endMins <= laneIn.segs[i].startMins
    /\ laneOut.laneCount = 1

\* the number of positive-length input segments that cover the minute t
OverlapAt(t) ==
    Cardinality({i \in 1..Len(laneIn.segs) :
                    /\ laneIn.segs[i].startMins <= t
                    /\ t < laneIn.segs[i].endMins})

\* C18: laneCount is the largest number of positive-length segments that overlap
\* at one instant, or 1 when there is none; for A [0, 120), B [60, 180),
\* C [150, 210) it is 2, with A in lane 0, B in lane 1 and C in lane 0.
C18_LaneCountIsMaxOverlap ==
    laneOut.called =>
        LET horizon == 0..Max(MaxSegMin, 210)
        IN /\ \A t \in horizon : OverlapAt(t) <= laneOut.laneCount
           /\ \/ \E t \in horizon : OverlapAt(t) = laneOut.laneCount
              \/ laneOut.laneCount = 1 /\ \A t \in horizon : OverlapAt(t) = 0
           /\ laneIn.segs = SketchSegs(laneIn.order)
                 => /\ laneOut.laneCount = 2
                    /\ laneOut.laneIndexById[laneIn.segs[1].id] = 0
                    /\ laneOut.laneIndexById[laneIn.segs[2].id] = 1
                    /\ laneOut.laneIndexById[laneIn.segs[3].id] = 0

\* the call on the documented example
C18_Witness ==
    /\ laneOut.called
    /\ laneIn.segs = SketchSegs(laneIn.order)
    /\ laneOut.laneCount = 2

(***************************************************************************)
(* utils/occurrence: expandEventsForRange                                  *)
(***************************************************************************)
\* A stored event (types.ts EventBase).  rrule = "" and parentId = Null stand for
\* absent fields; exdates is the list of excluded timestamps.
Event(id, s, e, rrule, exdates, parentId) ==
    [id |-> id, start |-> s, end |-> e, rrule |-> rrule, exdates |-> exdates,
     parentId |-> parentId]

\* date-fns startOfDay / endOfDay (23:59:59.999: the last minute of the day)
StartOfDay(t) == (t \div MinutesPerDay) * MinutesPerDay
EndOfDay(t) == StartOfDay(t) + MinutesPerDay - 1

\* RRULE strings of the model: two the evaluator accepts and one it rejects
RRuleDaily == "FREQ=DAILY"
RRuleWeekly == "FREQ=WEEKLY"
RRuleMalformed == "FREQ=BOGUS"

\* rrulestr(ev.rrule, { dtstart }) throws on a string it cannot parse
RuleRejected(rrule) == rrule \notin {RRuleDaily, RRuleWeekly}

RulePeriod(rrule) == IF rrule = RRuleDaily THEN MinutesPerDay ELSE WeekDays * MinutesPerDay

\* rule.between(lo, hi, true): the instance starts dtstart + k * period within the
\* inclusive window, in ascending order
RECURSIVE RuleBetweenFrom(_, _, _, _)
RuleBetweenFrom(t, period, lo, hi) ==
    IF t > hi THEN <<>>
    ELSE IF t < lo THEN RuleBetweenFrom(t + period, period, lo, hi)
    ELSE <<t>> \o RuleBetweenFrom(t + period, period, lo, hi)

RuleBetween(rrule, dtstart, lo, hi) == RuleBetweenFrom(dtstart, RulePeriod(rrule), lo, hi)

\* a skip test that never excludes
MutIsExcluded(ev, d) == FALSE

\* (ev.exdates ?? []).some((x) => new Date(x).getTime() === d.getTime())
IsExcluded(ev, d) == \E k \in 1..Len(ev.exdates) : ev.exdates[k] = d

\* an occurrence that keeps the event's id
MutOccurrence(ev, inst, sourceId, s, e) ==
    [id |-> <<ev.id, Null>>, sourceId |-> sourceId, start |-> s, end |-> e,
     rrule |-> ev.rrule, exdates |-> ev.exdates, parentId |-> ev.parentId]

\* An occurrence.  Its id is the pair <<event id, instance start>> for
\* `${ev.id}::${d.toISOString()}` and <<event id, Null>> for a passed-through event.
Occurrence(ev, inst, sourceId, s, e) ==
    [id |-> <<ev.id, inst>>, sourceId |-> sourceId, start |-> s, end |-> e,
     rrule |-> ev.rrule, exdates |-> ev.exdates, parentId |-> ev.parentId]

PassThrough(ev) == Occurrence(ev, Null, Null, ev.start, ev.end)

\* a loop that leaves the spread event's end in place
RECURSIVE MutExpandDates(_, _, _)
MutExpandDates(ev, dates, k) ==
    IF k > Len(dates) THEN <<>>
    ELSE LET d == dates[k]
         IN (IF IsExcluded(ev, d) THEN <<>>
             ELSE <<Occurrence(ev, d, ev.id, d, ev.end)>>)
            \o MutExpandDates(ev, dates, k + 1)

\* the for (const d of dates) loop
RECURSIVE ExpandDates(_, _, _)
ExpandDates(ev, dates, k) ==
    IF k > Len(dates) THEN <<>>
    ELSE LET d == dates[k]
             duration == ev.end - ev.start
         IN (IF IsExcluded(ev, d) THEN <<>>
             ELSE <<Occurrence(ev, d, ev.id, d, d + duration)>>)
            \o ExpandDates(ev, dates, k + 1)

\* an iteration that tests rrule before parentId
MutExpandOne(ev, start, end) ==
    IF ev.rrule # "" /\ ~RuleRejected(ev.rrule)
    THEN ExpandDates(ev, RuleBetween(ev.rrule, ev.start, StartOfDay(start), EndOfDay(end)), 1)
    ELSE <<PassThrough(ev)>>

\* one iteration of for (const ev of events): what it pushes to out
ExpandOne(ev, start, end) ==
    IF ev.parentId # Null THEN <<PassThrough(ev)>>
    ELSE IF ev.rrule # ""
         THEN ExpandDates(ev, RuleBetween(ev.rrule, ev.start, StartOfDay(start), EndOfDay(end)), 1)
         ELSE <<PassThrough(ev)>>

\* whether the iteration for ev throws: rrulestr is called only on this path
ExpandOneThrows(ev) == ev.parentId = Null /\ ev.rrule # "" /\ RuleRejected(ev.rrule)

RECURSIVE ExpandAll(_, _, _, _)
ExpandAll(evs, k, start, end) ==
    IF k > Len(evs) THEN <<>>
    ELSE ExpandOne(evs[k], start, end) \o ExpandAll(evs, k + 1, start, end)

\* the call: nothing catches the exception of rrulestr, so it leaves the function
ExpandEventsForRange(evs, start, end) ==
    IF \E k \in 1..Len(evs) : ExpandOneThrows(evs[k])
    THEN [called |-> TRUE, threw |-> TRUE, out |-> <<>>]
    ELSE [called |-> TRUE, threw |-> FALSE, out |-> ExpandAll(evs, 1, start, end)]

NoExpandResult == [called |-> FALSE, threw |-> FALSE, out |-> <<>>]

\* inputs: events 09:00-10:00 on day 0 with ids by position, any of the rule
\* strings, an exdate list and possibly a parentId (an id outside the list)
ExpStart == 9 * 60
ExpExdateLists == {<<>>, <<MinutesPerDay + ExpStart>>, <<MinutesPerDay + ExpStart + 1>>,
                   <<WeekDays * MinutesPerDay + ExpStart, ExpStart>>}
ExpDuration == 60

\* the callers ask for one day (DayView) or one week (WeekView)
ExpRanges == {<<d * MinutesPerDay, (d + span) * MinutesPerDay>> :
                d \in 0..MaxExpDay, span \in {0, MaxDayIndex}}

\* Event ids are strings; the model names them by integers and EventIdText gives
\* the string as a list of pieces.  ExpOddId names an id that reads like the id
\* of an occurrence of event 1: "1::" followed by an instance start.
ExpParentId == MaxExpEvents + 1
ExpOddId == MaxExpEvents + 2
EventIdText(id) ==
    IF id = ExpOddId THEN <<"1", "::", ToString(ExpStart)>> ELSE <<ToString(id)>>

\* `${ev.id}::${d.toISOString()}` for an expanded occurrence, ev.id otherwise
OccurrenceIdText(o) ==
    IF o.id[2] = Null THEN EventIdText(o.id[1])
    ELSE EventIdText(o.id[1]) \o <<"::", ToString(o.id[2])>>

\* a second duration: the event ends on the day after its start
ExpLongDuration == MinutesPerDay + ExpDuration

\* the events a caller may pass at position pos: one of the rule strings with
\* one of the exdate lists; a detached child (parentId) with any rule string; a
\* long event; from the second position on, an event with the odd id
ExpShapes(pos) ==
    LET rules == {"", RRuleDaily, RRuleWeekly, RRuleMalformed}
        ev(id, dur, rr, ex, par) == Event(id, ExpStart, ExpStart + dur, rr, ex, par)
    IN {ev(pos, ExpDuration, rr, ex, Null) : rr \in rules, ex \in ExpExdateLists}
       \cup {ev(pos, ExpDuration, rr, <<>>, ExpParentId) : rr \in rules}
       \cup {ev(pos, ExpLongDuration, rr, <<>>, Null) : rr \in {"", RRuleDaily, RRuleWeekly}}
       \cup (IF pos > 1
             THEN {ev(ExpOddId, ExpDuration, rr, <<>>, Null) : rr \in {"", RRuleDaily}}
             ELSE {})

\* the caller builds the argument list; its ids are pairwise distinct
AddEvent ==
    /\ ~expOut.called
    /\ Len(expIn) < MaxExpEvents
    /\ \E ev \in ExpShapes(Len(expIn) + 1) :
          /\ \A j \in 1..Len(expIn) : expIn[j].id # ev.id
          /\ expIn' = Append(expIn, ev)
    /\ UNCHANGED <<expRange, expOut, flVars, laneVars, cmVars, ptVars, gestVars>>

CallExpand ==
    /\ ~expOut.called
    /\ expOut' = ExpandEventsForRange(expIn, expRange[1], expRange[2])
    /\ UNCHANGED <<expIn, expRange, flVars, laneVars, cmVars, ptVars, gestVars>>

\* the occurrences of out that come from the input event with this id
OccsOf(out, id) == SelectSeq(out, LAMBDA o : o.id[1] = id)

\* C7 (as claimed): when one input event has an rrule the evaluator rejects, the
\* call does not throw and returns the occurrences of every other event.
C7_MalformedRuleIsolated ==
    (expOut.called /\ \E k \in 1..Len(expIn) : ExpandOneThrows(expIn[k]))
        => /\ ~expOut.threw
           /\ \A k \in 1..Len(expIn) :
                 ~ExpandOneThrows(expIn[k])
                    => OccsOf(expOut.out, expIn[k].id)
                         = ExpandOne(expIn[k], expRange[1], expRange[2])

\* C10: no occurrence of a recurring event is emitted whose instance start equals
\* an entry of that event's exdates.
C10_ExdateNeverEmitted ==
    (expOut.called /\ ~expOut.threw) =>
        \A k \in 1..Len(expOut.out) :
            LET o == expOut.out[k] IN
            o.sourceId # Null =>
                \A j \in 1..Len(expIn) :
                    expIn[j].id = o.sourceId =>
                        \A x \in 1..Len(expIn[j].exdates) : expIn[j].exdates[x] # o.start

\* a call on a recurring event one of whose instances in the window is excluded,
\* while another instance of it is emitted
C10_Witness ==
    /\ expOut.called /\ ~expOut.threw
    /\ \E j \in 1..Len(expIn) :
          LET ev == expIn[j]
              dates == RuleBetween(ev.rrule, ev.start, StartOfDay(expRange[1]), EndOfDay(expRange[2]))
          IN /\ ev.parentId = Null /\ ev.rrule = RRuleDaily
             /\ \E a \in 1..Len(dates) : \E x \in 1..Len(ev.exdates) : ev.exdates[x] = dates[a]
             /\ \E k \in 1..Len(expOut.out) : expOut.out[k].sourceId = ev.id

\* the call returned its list
ExpandReturned == expOut.called /\ ~expOut.threw

\* the input event an occurrence was expanded from
IsSourceOf(ev, o) == o.sourceId # Null /\ ev.id = o.sourceId

\* C11: every occurrence expanded from a recurring event lasts exactly as long as
\* the event: end - start equals the event's end - start.
C11_OccurrenceKeepsDuration ==
    ExpandReturned =>
        \A k \in 1..Len(expOut.out) : \A j \in 1..Len(expIn) :
            IsSourceOf(expIn[j], expOut.out[k]) =>
                expOut.out[k].end - expOut.out[k].start = expIn[j].end - expIn[j].start

\* an instance later than the first one, of an event that ends on the next day
C11_Witness ==
    /\ ExpandReturned
    /\ \E k \in 1..Len(expOut.out) : \E j \in 1..Len(expIn) :
          /\ IsSourceOf(expIn[j], expOut.out[k])
          /\ expOut.out[k].start > expIn[j].start
          /\ expIn[j].end - expIn[j].start = ExpLongDuration

\* an input event that is not expanded: it has a parentId, or it has no rrule
IsConcrete(ev) == ev.parentId # Null \/ ev.rrule = ""

\* C12: an input event with a parentId (whatever its rrule) or without rrule is in
\* the output exactly once, with its own id, start, end, rrule, exdates and
\* parentId and no sourceId, whatever the window; it never reaches the rule
\* evaluator, so an exception is never due to it.
C12_ConcreteEventPassesThrough ==
    /\ (expOut.called /\ expOut.threw) =>
           \E j \in 1..Len(expIn) : ~IsConcrete(expIn[j]) /\ RuleRejected(expIn[j].rrule)
    /\ ExpandReturned =>
           \A j \in 1..Len(expIn) :
               IsConcrete(expIn[j]) =>
                   LET at == {k \in 1..Len(expOut.out) : expOut.out[k].id[1] = expIn[j].id}
                   IN /\ Cardinality(at) = 1
                      /\ \A k \in at :
                            /\ OccurrenceIdText(expOut.out[k]) = EventIdText(expIn[j].id)
                            /\ expOut.out[k].sourceId = Null
                            /\ expOut.out[k].start = expIn[j].start
                            /\ expOut.out[k].end = expIn[j].end
                            /\ expOut.out[k].rrule = expIn[j].rrule
                            /\ expOut.out[k].exdates = expIn[j].exdates
                            /\ expOut.out[k].parentId = expIn[j].parentId

\* a detached child that carries a rule the evaluator would reject, and a window
\* that does not reach the child's day: the call returns and the child is there
C12_Witness ==
    /\ ExpandReturned
    /\ expRange[1] > EndOfDay(ExpStart)
    /\ \E j \in 1..Len(expIn) :
          /\ expIn[j].parentId # Null
          /\ expIn[j].rrule = RRuleMalformed
          /\ \E k \in 1..Len(expOut.out) : expOut.out[k].id[1] = expIn[j].id

\* an event id that contains the separator of occurrence ids
HasSeparator(id) == \E i \in 1..Len(EventIdText(id)) : EventIdText(id)[i] = "::"

\* the ids of the returned occurrences are pairwise distinct
DistinctOccurrenceIds ==
    \A a, b \in 1..Len(expOut.out) :
        a # b => OccurrenceIdText(expOut.out[a]) # OccurrenceIdText(expOut.out[b])

Some(v) == [has |-> TRUE, val |-> v]
Absent == [has |-> FALSE, val |-> <<>>]

\* x ?? fallback
OrElse(x, fallback) == IF x.has THEN x.val ELSE fallback

\* String.prototype.toLowerCase, on the letters used
LowerChar(c) == IF c = "A" THEN "a" ELSE IF c = "B" THEN "b" ELSE c
ToLowerCase(t) == [i \in 1..Len(t) |-> LowerChar(t[i])]

\* String.prototype.trim (the only white space used is the blank)
RECURSIVE Trim(_)
Trim(t) ==
    IF t = <<>> THEN t
    ELSE IF Head(t) = " " THEN Trim(Tail(t))
    ELSE IF t[Len(t)] = " " THEN Trim(SubSeq(t, 1, Len(t) - 1))
    ELSE t

\* Array.prototype.join(' ')
RECURSIVE JoinBlank(_)
JoinBlank(texts) ==
    IF texts = <<>> THEN <<>>
    ELSE IF Len(texts) = 1 THEN texts[1]
    ELSE texts[1] \o <<" ">> \o JoinBlank(Tail(texts))

\* String.prototype.includes
Includes(hay, q) ==
    \E i \in 0..(Len(hay) - Len(q)) : SubSeq(hay, i + 1, i + Len(q)) = q

\* a haystack that leaves the notes out
MutHay(e) ==
    ToLowerCase(e.title \o <<" ">> \o JoinBlank(OrElse(e.tags, <<>>)) \o <<" ">>
                \o OrElse(e.location, <<>>) \o <<" ">>)

\* `${e.title} ${(e.tags ?? []).join(' ')} ${e.location ?? ''} ${e.notes ?? ''}`
\*   .toLowerCase()
Hay(e) ==
    ToLowerCase(e.title \o <<" ">> \o JoinBlank(OrElse(e.tags, <<>>)) \o <<" ">>
                \o OrElse(e.location, <<>>) \o <<" ">> \o OrElse(e.notes, <<>>))

\* the callback of events.filter
FilterKeeps(e, opts) ==
    LET q == IF opts.query.has THEN ToLowerCase(Trim(opts.query.val)) ELSE <<>>
        cats == opts.categories
    IN /\ (q # <<>>) => Includes(Hay(e), q)
       /\ (cats.has /\ Len(cats.val) > 0)
             => /\ e.category # ""
                /\ \E k \in 1..Len(cats.val) : cats.val[k] = e.category

\* events.filter(...): a new array, the argument is left as it is
RECURSIVE FilterList(_, _)
FilterList(events_, opts) ==
    IF events_ = <<>> THEN <<>>
    ELSE (IF FilterKeeps(Head(events_), opts) THEN <<Head(events_)>> ELSE <<>>)
            \o FilterList(Tail(events_), opts)

FilterEvents(events_, opts) ==
    [called |-> TRUE, out |-> FilterList(events_, opts), after |-> events_]

NoFilterResult == [called |-> FALSE, out |-> <<>>, after |-> <<>>]
NoFilterInput == [items |-> <<>>, opts |-> [query |-> Absent, categories |-> Absent]]

\* queries: none, empty, blank, a letter, upper case between blanks, two words,
\* two letters that only meet across two fields, a letter that is nowhere
FilterQueries ==
    {Absent, Some(<<>>), Some(<<" ">>), Some(<<"a">>), Some(<<" ", "A", "B", " ">>),
     Some(<<"a", " ", "b">>), Some(<<"b", " ", "a">>), Some(<<"d">>)}

FilterCategories ==
    {Absent, Some(<<>>), Some(<<"College">>), Some(<<"Personal", "Other">>)}

\* occurrences: a title, tags or none, a location or notes or neither, a
\* category or none ("" stands for a missing category)
FilterItems(id) ==
    [id : {id},
     title : {<<"A", "b">>, <<"c">>},
     tags : {Absent, Some(<<(<<"a">>), (<<"b">>)>>)},
     location : {Absent, Some(<<"b">>)},
     notes : {Absent, Some(<<"a", "B">>)},
     category : {"", "College", "Personal"}]

\* the caller builds the list of occurrences
AddOccurrence ==
    /\ ~flOut.called
    /\ Len(flIn.items) < MaxFilterItems
    /\ \E e \in FilterItems(Len(flIn.items) + 1) :
          /\ ~(e.location.has /\ e.notes.has)
          /\ flIn' = [flIn EXCEPT !.items = Append(@, e)]
    /\ UNCHANGED <<flOut, expIn, expRange, expOut, laneVars, cmVars, ptVars, gestVars>>

CallFilterEvents ==
    /\ ~flOut.called
    /\ flOut' = FilterEvents(flIn.items, flIn.opts)
    /\ UNCHANGED <<flIn, expIn, expRange, expOut, laneVars, cmVars, ptVars, gestVars>>

\* title, tags, location and notes one after the other, a blank between them
SearchedText(e) ==
    e.title \o <<" ">> \o JoinBlank(IF e.tags.has THEN e.tags.val ELSE <<>>) \o <<" ">>
        \o (IF e.location.has THEN e.location.val ELSE <<>>) \o <<" ">>
        \o (IF e.notes.has THEN e.notes.val ELSE <<>>)

\* q occurs in t at some position, letters compared without regard to case
OccursIgnoringCase(q, t) ==
    \E i \in 0..(Len(t) - Len(q)) :
        \A k \in 1..Len(q) : LowerChar(t[i + k]) = LowerChar(q[k])

\* what the filter is to keep
Wanted(e) ==
    LET query == IF flIn.opts.query.has THEN Trim(flIn.opts.query.val) ELSE <<>>
        cats == IF flIn.opts.categories.has THEN flIn.opts.categories.val ELSE <<>>
    IN /\ query = <<>> \/ OccursIgnoringCase(query, SearchedText(e))
       /\ cats = <<>> \/ e.category \in {cats[k] : k \in 1..Len(cats)}

\* C23: filterEvents returns exactly the occurrences for which the trimmed query
\* is empty or occurs, ignoring case, in the text made of title, tags, location
\* and notes, and categories is empty or contains the occurrence's category, in
\* their original order, and leaves the input list as it was.
C23_FilterKeepsExactlyTheMatches ==
    flOut.called =>
        /\ flOut.out = SelectSeq(flIn.items, Wanted)
        /\ flOut.after = flIn.items

\* a query in upper case between blanks and an allow-list: the first occurrence
\* is dropped by its category, the second is kept by its notes alone
C23_Witness ==
    /\ flOut.called
    /\ flIn.opts.query = Some(<<" ", "A", "B", " ">>)
    /\ flIn.opts.categories = Some(<<"College">>)
    /\ Len(flIn.items) = 2
    /\ flIn.items[1].category = "Personal"
    /\ flIn.items[2].title = <<"c">>
    /\ ~flIn.items[2].tags.has
    /\ flOut.out = <<flIn.items[2]>>

(***************************************************************************)
(* utils/timeGrid: snapping and day-start-hour rotation                    *)
(***************************************************************************)
ToUnits(m) == m * UnitsPerMin

\* snapMins on a value given in units: Math.round(mins / snap) * snap, where
\* Math.round(x) = floor(x + 1/2); the result is in whole minutes
SnapUnits(u) ==
    ((2 * u + SNAP_MIN * UnitsPerMin) \div (2 * SNAP_MIN * UnitsPerMin)) * SNAP_MIN

\* snapMins on whole minutes
SnapMins(m) == SnapUnits(ToUnits(m))

\* JavaScript's %: the remainder has the sign of the dividend
JsRem(a, n) == IF a >= 0 THEN a % n ELSE 0 - ((0 - a) % n)

\* Math.max(0, Math.min(23, Math.floor(startHour))) * 60
HourOffset(startHour) == Max(0, Min(23, startHour)) * 60

\* a rotation without the added day
MutAbsMinsToGridMins(absMins, startHour) ==
    JsRem(absMins - HourOffset(startHour), MinutesPerDay)

\* absMinsToGridMins, on whole minutes
AbsMinsToGridMins(absMins, startHour) ==
    JsRem(absMins - HourOffset(startHour) + MinutesPerDay, MinutesPerDay)

\* gridMinsToAbsMins, on units: (gridMins + offset) % (24 * 60)
GridMinsToAbsMins(gridU, startHour) ==
    JsRem(gridU + ToUnits(HourOffset(startHour)), ToUnits(MinutesPerDay))

\* minsFromClientY / minsFromClientYInDay for a pointer y pixels below the top of
\* the column (clientY - rect.top): y / (ROW_H / 60), then the rotation; in units
MinsFromClientY(y, startHour) == GridMinsToAbsMins(y * UnitsPerPx, startHour)

(***************************************************************************)
(* utils/dragPreview: the values setStart and setEnd store                 *)
(***************************************************************************)
\* snap(Math.max(0, Math.min(24 * 60 - SNAP_MIN, mins)))
PreviewStartValue(u) == SnapUnits(Max(0, Min(ToUnits(MinutesPerDay - SNAP_MIN), u)))

\* an end value whose lower limit is 0
MutPreviewEndValue(u) == SnapUnits(Max(0, Min(ToUnits(MinutesPerDay), u)))

\* snap(Math.max(SNAP_MIN, Math.min(24 * 60, mins)))
PreviewEndValue(u) == SnapUnits(Max(ToUnits(SNAP_MIN), Min(ToUnits(MinutesPerDay), u)))

\* the slot overlay's end of selection: snap(Math.max(0, Math.min(24 * 60, raw)))
SelectEndValue(u) == SnapUnits(Max(0, Min(ToUnits(MinutesPerDay), u)))

(***************************************************************************)
(* Pointer position -> minute value, per interaction                       *)
(***************************************************************************)
\* DayView onDragMove2D: setPreviewStart(baseId, snap(abs))
DayDragValue(y, h) == PreviewStartValue(ToUnits(SnapUnits(MinsFromClientY(y, h))))
\* DayView onResize: setPreviewEnd(baseId, snap(abs))
DayResizeValue(y, h) == PreviewEndValue(ToUnits(SnapUnits(MinsFromClientY(y, h))))
\* WeekView onDragMove2D: setPreviewStart(baseId, mins, dayIdx)
WeekDragValue(y, h) == PreviewStartValue(MinsFromClientY(y, h))
\* WeekView onResize: setPreviewEnd(baseId, mins, dayIdx)
WeekResizeValue(y, h) == PreviewEndValue(MinsFromClientY(y, h))
\* slot overlay onPointerDown: the start of the selection
SelectStartValue(y, h) == PreviewStartValue(MinsFromClientY(y, h))
\* slot overlay onMove / onUp: the current end of the selection
SelectCurValue(y, h) == SelectEndValue(MinsFromClientY(y, h))

\* the column is 24 rows of ROW_H pixels
ColumnPx == ROW_H * 24
PtStepPx == ROW_H \div 8
PointerYs == {k * PtStepPx : k \in (0 - PtOutRows)..((ColumnPx \div PtStepPx) + PtOutRows)}

\* a result: the operation, the value it gave and, for the rotation, the minute
\* it was applied to and the minute the inverse rotation gives back, in units
NoPtResult == [op |-> "none", value |-> 0, arg |-> 0, back |-> 0]
NoPtInput == [y |-> 0, startHour |-> 0]
PtInputs == [y : PointerYs, startHour : 0..23]

PtApply(op, v) ==
    /\ ptOut.op = "none"
    /\ ptOut' = [NoPtResult EXCEPT !.op = op, !.value = v]
    /\ UNCHANGED <<ptIn, laneVars, expVars, flVars, cmVars, gestVars>>

DayDragSample == PtApply("dayDrag", DayDragValue(ptIn.y, ptIn.startHour))
DayResizeSample == PtApply("dayResize", DayResizeValue(ptIn.y, ptIn.startHour))
WeekDragSample == PtApply("weekDrag", WeekDragValue(ptIn.y, ptIn.startHour))
WeekResizeSample == PtApply("weekResize", WeekResizeValue(ptIn.y, ptIn.startHour))
SelectStartSample == PtApply("selectStart", SelectStartValue(ptIn.y, ptIn.startHour))
SelectCurSample == PtApply("selectCur", SelectCurValue(ptIn.y, ptIn.startHour))

\* setStart / setEnd called with the unrotated minute value of the pointer
SetStartSample == PtApply("setStart", PreviewStartValue(ptIn.y * UnitsPerPx))
SetEndSample == PtApply("setEnd", PreviewEndValue(ptIn.y * UnitsPerPx))

\* absMinsToGridMins on a minute of the day, then gridMinsToAbsMins on the result;
\* the pointer takes no part, so the step is taken for one pointer position
GridRoundTrip ==
    /\ ptOut.op = "none"
    /\ ptIn.y = 0
    /\ \E a \in 0..(MinutesPerDay - 1) :
          LET grid == AbsMinsToGridMins(a, ptIn.startHour)
          IN ptOut' = [op |-> "toGrid", value |-> grid, arg |-> a,
                       back |-> GridMinsToAbsMins(ToUnits(grid), ptIn.startHour)]
    /\ UNCHANGED <<ptIn, laneVars, expVars, flVars, cmVars, gestVars>>

StartOps == {"dayDrag", "weekDrag", "selectStart"}
EndOps == {"dayResize", "weekResize", "selectCur"}

\* C9 (as claimed): a pointer above the top of the column yields the first minute
\* of the day (an end value may not go below one step), a pointer below the
\* bottom yields 1440 - step for a start value and 1440 for an end value.
C9_OutOfRangeClamped ==
    ptOut.op # "none" =>
        /\ (ptIn.y < 0 /\ ptOut.op \in StartOps) => ptOut.value = 0
        /\ (ptIn.y < 0 /\ ptOut.op \in EndOps) => ptOut.value \in {0, SNAP_MIN}
        /\ (ptIn.y > ColumnPx /\ ptOut.op \in StartOps)
              => ptOut.value = MinutesPerDay - SNAP_MIN
        /\ (ptIn.y > ColumnPx /\ ptOut.op \in EndOps) => ptOut.value = MinutesPerDay

\* C19: for H in 0..23 and a in [0, 1440), absMinsToGridMins(a, H) is
\* (a - 60 H + 1440) mod 1440, lies in [0, 1440), and gridMinsToAbsMins of it
\* with the same H is a again.
C19_RotationRoundTrip ==
    (ptOut.op = "toGrid" /\ ptIn.startHour \in 0..23) =>
        /\ ptOut.value = (ptOut.arg - 60 * ptIn.startHour + MinutesPerDay) % MinutesPerDay
        /\ ptOut.value >= 0
        /\ ptOut.value < MinutesPerDay
        /\ ptOut.back = ToUnits(ptOut.arg)

\* a minute before the day-start hour: the rotation wraps it to the end of the grid
C19_Witness ==
    /\ ptOut.op = "toGrid"
    /\ ptIn.startHour = 23
    /\ ptOut.arg < 60 * ptIn.startHour
    /\ ptOut.value > ptOut.arg
    /\ ptOut.back = ToUnits(ptOut.arg)

\* C20: whatever minute value is passed, setStart stores a multiple of the snap
\* step in [0, 1440 - step] and setEnd a multiple of the step in [step, 1440].
C20_PreviewValuesInRange ==
    /\ ptOut.op \in {"setStart", "dayDrag", "weekDrag"} =>
          /\ ptOut.value % SNAP_MIN = 0
          /\ ptOut.value >= 0
          /\ ptOut.value <= MinutesPerDay - SNAP_MIN
    /\ ptOut.op \in {"setEnd", "dayResize", "weekResize"} =>
          /\ ptOut.value % SNAP_MIN = 0
          /\ ptOut.value >= SNAP_MIN
          /\ ptOut.value <= MinutesPerDay

\* setEnd called with a negative minute value stores one step
C20_Witness ==
    /\ ptOut.op = "setEnd"
    /\ ptIn.y < 0
    /\ ptOut.value = SNAP_MIN

(***************************************************************************)
(* utils/eventUpdates: commit math, on whole minutes                       *)
(***************************************************************************)
MinuteOfDay(t) == t % MinutesPerDay

\* a move that snaps the requested minute without clamping it
MutComputeMoveWithinDay(ev, day, newStartMins) ==
    LET durMins == Max(0, ev.end - ev.start)
        d == StartOfDay(day) + SnapMins(newStartMins)
    IN [start |-> d, end |-> d + durMins]

\* a move that gives the event at least one snap step of duration
MutMoveMinDuration(ev, day, newStartMins) ==
    LET durMins == Max(SNAP_MIN, ev.end - ev.start)
        d == StartOfDay(day)
               + SnapMins(Max(0, Min(MinutesPerDay - SNAP_MIN, newStartMins)))
    IN [start |-> d, end |-> d + durMins]

\* computeMoveWithinDay(ev, day, newStartMins, snap, SNAP_MIN)
ComputeMoveWithinDay(ev, day, newStartMins) ==
    LET durMins == Max(0, ev.end - ev.start)
        d == StartOfDay(day)
               + SnapMins(Max(0, Min(MinutesPerDay - SNAP_MIN, newStartMins)))
    IN [start |-> d, end |-> d + durMins]

\* computeResizeWithinDay(ev, day, newEndMins, snap, SNAP_MIN)
ComputeResizeWithinDay(ev, day, newEndMins) ==
    LET minEnd == MinuteOfDay(ev.start) + SNAP_MIN
        mins == SnapMins(Max(minEnd, Min(MinutesPerDay, newEndMins)))
    IN [end |-> StartOfDay(day) + mins]

\* computeMoveToDay(ev, weekStart, dayIndex, newStartMins, snap, SNAP_MIN)
ComputeMoveToDay(ev, weekStart, dayIndex, newStartMins) ==
    LET durMins == Max(0, ev.end - ev.start)
        base == StartOfDay(weekStart + Max(0, Min(MaxDayIndex, dayIndex)) * MinutesPerDay)
                  + SnapMins(Max(0, Min(MinutesPerDay - SNAP_MIN, newStartMins)))
    IN [start |-> base, end |-> base + durMins]

\* a resize that returns the proposed end as it is
MutComputeResizeToDay(ev, weekStart, dayIndex, newEndMins) ==
    LET endDay == StartOfDay(weekStart + Max(0, Min(MaxDayIndex, dayIndex)) * MinutesPerDay)
        minsClamped == SnapMins(Max(0, Min(MinutesPerDay, newEndMins)))
    IN [end |-> endDay + minsClamped]

\* computeResizeToDay(ev, weekStart, dayIndex, newEndMins, snap, SNAP_MIN)
ComputeResizeToDay(ev, weekStart, dayIndex, newEndMins) ==
    LET endDay == StartOfDay(weekStart + Max(0, Min(MaxDayIndex, dayIndex)) * MinutesPerDay)
        minsClamped == SnapMins(Max(0, Min(MinutesPerDay, newEndMins)))
        proposedEnd == endDay + minsClamped
        minEndTime == ev.start + SNAP_MIN
    IN [end |-> IF proposedEnd < minEndTime THEN minEndTime ELSE proposedEnd]

\* arguments are taken on a lattice finer than the snap step, so that starts off
\* the snap grid occur; the event lasts an hour and starts on day 0, and the
\* anchor day is the event's day or the next one
CmStep == SNAP_MIN \div 3
CmDuration == ExpDuration
\* the requested minute also takes CmOutSteps values below 0 and above 1440.
\* The result records the function called, the event it was called on (ev), the
\* day index passed, if any, and the patch (start is Null when the patch has none)
NoCmResult == [fn |-> "none", ev |-> 0, dayIndex |-> 0, start |-> Null, end |-> 0]
NoCmInput == [start |-> 0, day |-> 0, req |-> 0]
CmInputs == [start : {k * CmStep : k \in 0..((MinutesPerDay - 1) \div CmStep)},
             day : {0, MinutesPerDay},
             req : {k * CmStep : k \in (0 - CmOutSteps)..((MinutesPerDay \div CmStep)
                                                            + CmOutSteps)}]

CmEvent == Event(1, cmIn.start, cmIn.start + CmDuration, "", <<>>, Null)

CallResizeWithinDay ==
    /\ cmOut.fn = "none"
    /\ cmOut' = [NoCmResult EXCEPT
                    !.fn = "resizeWithinDay", !.ev = CmEvent,
                    !.end = ComputeResizeWithinDay(CmEvent, cmIn.day, cmIn.req).end]
    /\ UNCHANGED <<cmIn, laneVars, expVars, flVars, ptVars, gestVars>>

\* durations of the moved event: shorter than a snap step, an hour, into the
\* next day (the data model's end > start holds for each)
CmDurations == {CmStep, CmDuration, MinutesPerDay + CmDuration}

CallMoveWithinDay ==
    /\ cmOut.fn = "none"
    /\ \E dur \in CmDurations :
          LET ev == Event(1, cmIn.start, cmIn.start + dur, "", <<>>, Null)
              patch == ComputeMoveWithinDay(ev, cmIn.day, cmIn.req)
          IN cmOut' = [NoCmResult EXCEPT !.fn = "moveWithinDay", !.ev = ev,
                                         !.start = patch.start, !.end = patch.end]
    /\ UNCHANGED <<cmIn, laneVars, expVars, flVars, ptVars, gestVars>>

\* computeMoveWithinDay to cmIn.day at cmIn.req, then computeMoveWithinDay of the
\* moved event to the day and minute the event had at first
CallMoveThereAndBack ==
    /\ cmOut.fn = "none"
    /\ \E dur \in CmDurations :
          LET ev == Event(1, cmIn.start, cmIn.start + dur, "", <<>>, Null)
              there == ComputeMoveWithinDay(ev, cmIn.day, cmIn.req)
              moved == [ev EXCEPT !.start = there.start, !.end = there.end]
              back == ComputeMoveWithinDay(moved, StartOfDay(ev.start),
                                           MinuteOfDay(ev.start))
          IN cmOut' = [NoCmResult EXCEPT !.fn = "moveThereAndBack", !.ev = ev,
                                         !.start = back.start, !.end = back.end]
    /\ UNCHANGED <<cmIn, laneVars, expVars, flVars, ptVars, gestVars>>

\* addMinutes(e, 30)
ClampMinutes == 30

\* clampEvent(startISO, endISO)
ClampEvent(startT, endT) ==
    IF endT < startT THEN [start |-> endT, end |-> endT + ClampMinutes]
    ELSE [start |-> startT, end |-> endT]

\* clampEvent on an event that starts at cmIn.start and ends at cmIn.req
CallClampEvent ==
    /\ cmOut.fn = "none"
    /\ LET ev == Event(1, cmIn.start, cmIn.req, "", <<>>, Null)
           r == ClampEvent(ev.start, ev.end)
       IN cmOut' = [NoCmResult EXCEPT !.fn = "clampEvent", !.ev = ev,
                                      !.start = r.start, !.end = r.end]
    /\ UNCHANGED <<cmIn, laneVars, expVars, flVars, ptVars, gestVars>>

\* the resized event starts on the middle day of the week that starts at
\* cmIn.day; the day index runs over the columns and one step beyond each side
CmEventDay == MaxDayIndex \div 2

CallResizeToDay ==
    /\ cmOut.fn = "none"
    /\ \E dayIndex \in (0 - 1)..(MaxDayIndex + 1) :
          LET s == cmIn.day + CmEventDay * MinutesPerDay + cmIn.start
              ev == Event(1, s, s + CmDuration, "", <<>>, Null)
              patch == ComputeResizeToDay(ev, cmIn.day, dayIndex, cmIn.req)
          IN cmOut' = [NoCmResult EXCEPT !.fn = "resizeToDay", !.ev = ev,
                                         !.dayIndex = dayIndex, !.end = patch.end]
    /\ UNCHANGED <<cmIn, laneVars, expVars, flVars, ptVars, gestVars>>

\* C8 (as claimed): the patch of computeResizeWithinDay ends at or after the
\* event's start plus one snap step, and exactly there when the requested end is
\* before it.
C8_ResizeKeepsMinimumDuration ==
    (cmOut.fn = "resizeWithinDay" /\ StartOfDay(cmIn.day) = StartOfDay(cmIn.start)) =>
        /\ cmOut.end >= cmIn.start + SNAP_MIN
        /\ (cmIn.req < MinuteOfDay(cmIn.start) + SNAP_MIN)
              => cmOut.end = cmIn.start + SNAP_MIN

\* C14: computeMoveWithinDay returns start = midnight of the given day plus
\* snap(clamp(newStartMinutes, 0, 1440 - step)) and end = start plus the event's
\* end - start: the start stays on the given day and the duration is kept.
C14_MoveKeepsDayAndDuration ==
    cmOut.fn = "moveWithinDay" =>
        LET clamped == IF cmIn.req < 0 THEN 0
                       ELSE IF cmIn.req > MinutesPerDay - SNAP_MIN
                            THEN MinutesPerDay - SNAP_MIN ELSE cmIn.req
            \* the multiple of the step nearest to the clamped minute, halves up
            nearest == CHOOSE x \in {k * SNAP_MIN : k \in 0..(MinutesPerDay \div SNAP_MIN)} :
                          2 * (clamped - x) <= SNAP_MIN /\ 2 * (x - clamped) < SNAP_MIN
        IN /\ cmOut.start = StartOfDay(cmIn.day) + nearest
           /\ cmOut.end = cmOut.start + (cmOut.ev.end - cmOut.ev.start)
           /\ StartOfDay(cmOut.start) = StartOfDay(cmIn.day)

\* a move, to another day than the event's, of an event that reaches the next
\* day, requested beyond the end of the day
C14_Witness ==
    /\ cmOut.fn = "moveWithinDay"
    /\ cmIn.req > MinutesPerDay
    /\ StartOfDay(cmIn.day) # StartOfDay(cmOut.ev.start)
    /\ cmOut.ev.end - cmOut.ev.start > MinutesPerDay
    /\ cmOut.start = StartOfDay(cmIn.day) + MinutesPerDay - SNAP_MIN

\* C21: an event whose start is on a snap boundary, moved by computeMoveWithinDay
\* to an in-range snapped minute and then moved back to its original start
\* minute on its original day, has its original start and end again.
C21_MoveThereAndBack ==
    (/\ cmOut.fn = "moveThereAndBack"
     /\ cmIn.start % SNAP_MIN = 0
     /\ cmIn.req % SNAP_MIN = 0
     /\ cmIn.req >= 0
     /\ cmIn.req <= MinutesPerDay - SNAP_MIN)
        => /\ cmOut.start = cmOut.ev.start
           /\ cmOut.end = cmOut.ev.end

\* there and back across days, from the last snap boundary of the day, for an
\* event shorter than a step
C21_Witness ==
    /\ cmOut.fn = "moveThereAndBack"
    /\ cmIn.start = MinutesPerDay - SNAP_MIN
    /\ cmIn.req = 0
    /\ cmIn.day = MinutesPerDay
    /\ cmOut.ev.end - cmOut.ev.start < SNAP_MIN
    /\ cmOut.start = cmOut.ev.start
    /\ cmOut.end = cmOut.ev.end

\* C26: clampEvent turns an event whose end is at or before its start into one
\* with the same start and end = start + the minimum duration.
C26_ClampKeepsStart ==
    (cmOut.fn = "clampEvent" /\ cmOut.ev.end <= cmOut.ev.start) =>
        /\ cmOut.start = cmOut.ev.start
        /\ cmOut.end = cmOut.ev.start + ClampMinutes

\* C15: the patch of computeResizeToDay ends at or after the event's start plus
\* one snap step, also when the target day is before the event's start day.
C15_ResizeToDayKeepsMinimum ==
    cmOut.fn = "resizeToDay" => cmOut.end >= cmOut.ev.start + SNAP_MIN

\* a resize to a day before the event's day: the end is pushed to start + step
C15_Witness ==
    /\ cmOut.fn = "resizeToDay"
    /\ cmOut.dayIndex >= 0
    /\ cmOut.dayIndex < CmEventDay
    /\ cmOut.end = cmOut.ev.start + SNAP_MIN

(***************************************************************************)
(* context/EventsContext + data/db: the store behind state.events          *)
(***************************************************************************)
\* a write of the patch as a full entity: the fields it lacks are reset
MutApplyPatch(ev, patch) ==
    [f \in DOMAIN ev |-> IF f \in DOMAIN patch THEN patch[f]
                         ELSE IF f = "id" THEN ev[f] ELSE Event(Null, 0, 0, "", <<>>, Null)[f]]

\* { ...currentEvent, ...patch }: the patch's fields replace the record's
ApplyPatch(ev, patch) ==
    [f \in DOMAIN ev |-> IF f \in DOMAIN patch THEN patch[f] ELSE ev[f]]

\* the event's fields whose values are arrays (typeof value === 'object')
ArrayFields == {"exdates"}

\* eventItemToRow: an object value is stored as its JSON text
EventItemToRow(ev) ==
    [f \in DOMAIN ev |-> IF f \in ArrayFields THEN [json |-> ev[f]] ELSE ev[f]]

\* rowToEventItem: the text of tags, reminderMinutes and exdates is parsed back
RowToEventItem(row) ==
    [f \in DOMAIN row |->
        IF f \in {"tags", "reminderMinutes", "exdates"} /\ f \in ArrayFields
        THEN row[f].json ELSE row[f]]

\* actions.update(id, patch) -> updateEvent: a patch for a missing row is
\* dropped; the row is read as an event, patched and written back as a row
\* (state.events holds the rows read as events)
StoreUpdate(evs, id, patch) ==
    IF id \in DOMAIN evs
    THEN [evs EXCEPT ![id] =
            RowToEventItem(EventItemToRow(
                ApplyPatch(RowToEventItem(EventItemToRow(@)), patch)))]
    ELSE evs

\* actions.add(ev): newEv = { ...ev, id: <fresh id> }, then addEvent(newEv)
StoreAdd(evs, ev, id) == MapSet(evs, id, [ev EXCEPT !.id = id])

\* state.dayStartHour as loaded when nothing is stored (loadDayStartHourFromStorage)
DayStartHour == 0

(***************************************************************************)
(* utils/dragPreview: the preview map                                      *)
(***************************************************************************)
NoEntry == [startMins |-> Null, endMins |-> Null, dayIndex |-> Null]
EntryOf(p, baseId) == IF baseId \in DOMAIN p THEN p[baseId] ELSE NoEntry
MapDel(m, k) == [x \in (DOMAIN m) \ {k} |-> m[x]]

\* setStart(baseId, mins, dayIndex?)
SetStart(p, baseId, u, dayIndex) ==
    MapSet(p, baseId, [EntryOf(p, baseId) EXCEPT
                          !.startMins = PreviewStartValue(u),
                          !.dayIndex = IF dayIndex # Null THEN dayIndex ELSE @])

\* setEnd(baseId, mins, dayIndex?)
SetEnd(p, baseId, u, dayIndex) ==
    MapSet(p, baseId, [EntryOf(p, baseId) EXCEPT
                          !.endMins = PreviewEndValue(u),
                          !.dayIndex = IF dayIndex # Null THEN dayIndex ELSE @])

\* clearStart(baseId): the entry stays when it still has an endMins or a dayIndex
ClearStart(p, baseId) ==
    IF baseId \notin DOMAIN p THEN p
    ELSE LET cur == p[baseId] IN
         IF cur.endMins # Null \/ cur.dayIndex # Null
         THEN MapSet(p, baseId, [NoEntry EXCEPT !.endMins = cur.endMins,
                                                !.dayIndex = cur.dayIndex])
         ELSE MapDel(p, baseId)

\* clearEnd(baseId): the entry stays when it still has a startMins or a dayIndex
ClearEnd(p, baseId) ==
    IF baseId \notin DOMAIN p THEN p
    ELSE LET cur == p[baseId] IN
         IF cur.startMins # Null \/ cur.dayIndex # Null
         THEN MapSet(p, baseId, [NoEntry EXCEPT !.startMins = cur.startMins,
                                                !.dayIndex = cur.dayIndex])
         ELSE MapDel(p, baseId)

(***************************************************************************)
(* DayView / WeekView: what is rendered                                    *)
(***************************************************************************)
DayOf(t) == t \div MinutesPerDay

\* startOfWeek(anchor, { weekStartsOn }), as a day number (weeks start on day 0)
WeekStartDay(anchorDay) == (anchorDay \div WeekDays) * WeekDays

\* the days whose columns are mounted
ViewDays(v, anchorDay) ==
    IF v = "day" THEN {anchorDay}
    ELSE {WeekStartDay(anchorDay) + i : i \in 0..MaxDayIndex}

\* state.events as the list handed to the expander (ascending ids)
RECURSIVE EventList(_, _)
EventList(evs, ids) ==
    IF ids = {} THEN <<>>
    ELSE LET m == CHOOSE x \in ids : \A y \in ids : x <= y
         IN <<evs[m]>> \o EventList(evs, ids \ {m})

\* occurrences(): expandEventsForRange over the view's window
ViewOccurrences(v, anchorDay, evs) ==
    LET lo == IF v = "day" THEN anchorDay ELSE WeekStartDay(anchorDay)
        hi == IF v = "day" THEN anchorDay ELSE WeekStartDay(anchorDay) + MaxDayIndex
    IN ExpandEventsForRange(EventList(evs, DOMAIN evs),
                            lo * MinutesPerDay, hi * MinutesPerDay).out

\* the day segment of an occurrence: minutes clamped to the day
SegStartMins(o, day) == IF DayOf(o.start) = day THEN MinuteOfDay(o.start) ELSE 0
SegEndMins(o, day) == IF DayOf(o.end) = day THEN MinuteOfDay(o.end) ELSE MinutesPerDay

\* s < dayEnd && en > dayStart, and the segment has positive length
HasBlock(o, day) ==
    /\ DayOf(o.start) <= day
    /\ o.end > day * MinutesPerDay
    /\ SegEndMins(o, day) > SegStartMins(o, day)

\* isStartSegment / isEndSegment
IsStartSegment(o, day) == DayOf(o.start) = day
IsEndSegment(o, day) == DayOf(o.end) = day

\* draggable / resizable props of the EventBlock: DayView does not let an
\* occurrence of a series (sourceId) be edited by pointer, WeekView does
Draggable(v, o, day) == IsStartSegment(o, day) /\ (v = "week" \/ o.sourceId = Null)
Resizable(v, o, day) == IsEndSegment(o, day) /\ (v = "week" \/ o.sourceId = Null)

\* const baseId = e.sourceId ?? e.id
BaseId(o) == IF o.sourceId # Null THEN o.sourceId ELSE o.id[1]

(***************************************************************************)
(* Edge navigation timer                                                   *)
(***************************************************************************)
\* startEdgeNav(dir): a running timer is kept; 0 stands for edgeTimer == null
StartEdgeNav(timer, dir) == IF timer # 0 THEN timer ELSE dir

\* the pointer's X against the container's EDGE_PX margins (edge = -1, 0, 1)
EdgeAfterMove(timer, edge) ==
    IF edge = 1 THEN StartEdgeNav(timer, 1)
    ELSE IF edge = -1 THEN StartEdgeNav(timer, -1)
    ELSE 0

(***************************************************************************)
(* The gesture: EventBlock + utils/pointer + the view's callbacks          *)
(***************************************************************************)
NoOcc == [id |-> <<Null, Null>>, sourceId |-> Null, start |-> 0, end |-> 0,
          rrule |-> "", exdates |-> <<>>, parentId |-> Null]
NoPayload == Event(Null, 0, 0, "", <<>>, Null)

\* kind: "none" | "drag" | "resize"; occ, col: the closure's e and i; started:
\* EventBlock's flag; phase: "down" while the pointer listeners are registered,
\* "awaitUpdate" / "awaitAdd" while the async end handler waits for the store;
\* ok: how the awaited promise will settle; rangeStart, payload: the end
\* handler's locals (rangeStart() as read before the first await, the detached
\* event without its id), prevEx: its copy of the series' exdates; edge: the margin the pointer's most recent event was
\* in (-1 left, 0 none, 1 right), empty before the first event after pointer-down;
\* moved: some event since pointer-down was more than 2 px from where it went down
NoGesture == [kind |-> "none", occ |-> NoOcc, baseId |-> Null, col |-> 0,
              started |-> FALSE, phase |-> "idle", ok |-> TRUE, rangeStart |-> 0,
              payload |-> NoPayload, edge |-> <<>>, prevEx |-> <<>>,
              moved |-> FALSE]

\* history of the current (or last) gesture: its number, its base id, whether it
\* is on an occurrence of a series, how the pointer was released ("no" | "up" |
\* "cancel"), the store calls made since pointer-down, the series and the
\* stored ids as they were at pointer-down, how the end handler finished
\* ("noDrag" when EventBlock did not call it), the id of the event it created,
\* the gesture's kind, whether the pointer had moved more than 2 px by its release
NoHistory == [count |-> 0, baseId |-> Null, ofSeries |-> FALSE, released |-> "no",
              calls |-> <<>>, series |-> NoPayload, ids |-> {}, outcome |-> "none",
              created |-> Null, kind |-> "none", moved |-> FALSE]

\* a pointer event: the column under clientX, clientY below the column's top, the
\* edge margin clientX is in, and whether it is more than 2 px from the start
\* (far is read only while a drag has not started: it is TRUE otherwise).
\* clientY is sampled every third of the column, clientX in the first and the
\* last column, inside or outside the EDGE_PX margin
GestYs == {k * (ColumnPx \div 3) : k \in 0..MaxGestRow}
GestCols == {0, MaxDayIndex}
PointerEvents(v, gst) ==
    LET fars == IF gst.kind = "drag" /\ ~gst.started THEN BOOLEAN ELSE {TRUE}
    IN IF v = "day" THEN [col : {0}, y : GestYs, edge : {-1, 0, 1}, far : fars]
       ELSE {ev \in [col : GestCols, y : GestYs,
                     edge : {-1, 0, 1}, far : fars] :
               /\ ev.edge = 1 => ev.col = MaxDayIndex
               /\ ev.edge = -1 => ev.col = 0}

\* a store call recorded in the history
Call(h, op, id) ==
    [h EXCEPT !.calls = Append(@, [op |-> op, id |-> id, afterRelease |-> h.released # "no"])]

\* onDragMove2D of the view: the preview entry it writes
DragMovePreview(v, p, baseId, ev) ==
    IF v = "day"
    THEN SetStart(p, baseId, ToUnits(SnapUnits(MinsFromClientY(ev.y, DayStartHour))), Null)
    ELSE SetStart(p, baseId, MinsFromClientY(ev.y, DayStartHour), ev.col)

\* onResize of the view: the preview entry it writes
ResizeMovePreview(v, p, baseId, ev) ==
    IF v = "day"
    THEN SetEnd(p, baseId, ToUnits(SnapUnits(MinsFromClientY(ev.y, DayStartHour))), Null)
    ELSE SetEnd(p, baseId, MinsFromClientY(ev.y, DayStartHour), ev.col)

\* an onMove callback without the 2 px threshold: the drag starts with the first
\* pointer event
MutMoveResult(v, gst, p, dr, timer, ev) ==
    IF gst.kind = "drag"
    THEN [g |-> [gst EXCEPT !.started = TRUE, !.edge = <<ev.edge>>, !.moved = @ \/ ev.far],
          preview |-> DragMovePreview(v, p, gst.baseId, ev),
          dragging |-> IF gst.started THEN dr ELSE gst.baseId,
          edgeTimer |-> EdgeAfterMove(timer, ev.edge)]
    ELSE [g |-> [gst EXCEPT !.edge = <<ev.edge>>, !.moved = @ \/ ev.far],
          preview |-> ResizeMovePreview(v, p, gst.baseId, ev),
          dragging |-> dr,
          edgeTimer |-> IF v = "day" THEN timer ELSE EdgeAfterMove(timer, ev.edge)]

\* withPointer/withPointer2D's onMove callback as EventBlock passes it: the drag
\* starts past the 2 px threshold (onDragStart sets dragging), then the view's
\* onDragMove2D / onResize runs.  Only view-local state changes.
MoveResult(v, gst, p, dr, timer, ev) ==
    IF gst.kind = "drag"
    THEN IF ~gst.started /\ ~ev.far
         THEN [g |-> [gst EXCEPT !.edge = <<ev.edge>>],
               preview |-> p, dragging |-> dr, edgeTimer |-> timer]
         ELSE [g |-> [gst EXCEPT !.started = TRUE, !.edge = <<ev.edge>>, !.moved = TRUE],
               preview |-> DragMovePreview(v, p, gst.baseId, ev),
               dragging |-> IF gst.started THEN dr ELSE gst.baseId,
               edgeTimer |-> EdgeAfterMove(timer, ev.edge)]
    ELSE [g |-> [gst EXCEPT !.edge = <<ev.edge>>, !.moved = @ \/ ev.far],
          preview |-> ResizeMovePreview(v, p, gst.baseId, ev),
          dragging |-> dr,
          edgeTimer |-> IF v = "day" THEN timer ELSE EdgeAfterMove(timer, ev.edge)]

\* the store as the gestures find it: one plain event and one weekly series
InitEvents ==
    MapSet(MapSet(<<>>, 1, Event(1, MinutesPerDay + ExpStart,
                                 MinutesPerDay + ExpStart + ExpDuration, "", <<>>, Null)),
           2, Event(2, 2 * MinutesPerDay + ExpStart,
                    2 * MinutesPerDay + ExpStart + ExpDuration, RRuleWeekly, <<>>, Null))

\* state.viewDate at mount: the day of the plain event, in the series' week
InitViewDay == DayOf(InitEvents[1].start)

\* the rendered blocks a pointer-down can land on: (occurrence, day of the column)
Blocks(v, anchorDay, evs) ==
    LET occs == ViewOccurrences(v, anchorDay, evs)
    IN {<<occs[k], day>> : k \in 1..Len(occs), day \in ViewDays(v, anchorDay)}

\* the column index i of a day in the mounted view
ColumnOf(v, anchorDay, day) == IF v = "day" THEN 0 ELSE day - WeekStartDay(anchorDay)

\* the closure EventBlock's onPointerDown builds for a gesture on block (o, day)
BeginGesture(kind, o, day) ==
    /\ g' = [NoGesture EXCEPT !.kind = kind, !.occ = o, !.baseId = BaseId(o),
                              !.col = ColumnOf(view, viewDate, day), !.phase = "down"]
    /\ hist' = [NoHistory EXCEPT !.count = hist.count + 1, !.baseId = BaseId(o),
                                 !.ofSeries = o.sourceId # Null, !.kind = kind,
                                 !.ids = DOMAIN events,
                                 !.series = IF o.sourceId # Null
                                            THEN events[o.sourceId] ELSE NoPayload]
    /\ UNCHANGED <<view, viewDate, events, nextId, preview, dragging, edgeTimer>>
    /\ UNCHANGED <<laneVars, expVars, flVars, cmVars, ptVars, g2, toasts>>

\* EventBlock onPointerDown on the body of a draggable block
PointerDownDrag ==
    /\ g.kind = "none"
    /\ hist.count < MaxGestures
    /\ \E b \in Blocks(view, viewDate, events) :
          /\ HasBlock(b[1], b[2])
          /\ Draggable(view, b[1], b[2])
          /\ BeginGesture("drag", b[1], b[2])

\* EventBlock onPointerDown on the resize handle of a resizable block
PointerDownResize ==
    /\ g.kind = "none"
    /\ hist.count < MaxGestures
    /\ \E b \in Blocks(view, viewDate, events) :
          /\ HasBlock(b[1], b[2])
          /\ Resizable(view, b[1], b[2])
          /\ BeginGesture("resize", b[1], b[2])

\* a pointermove handler that also writes the moved start to the store
MutPointerMove ==
    /\ g.phase = "down"
    /\ \E ev \in PointerEvents(view, g) :
          LET m == MoveResult(view, g, preview, dragging, edgeTimer, ev)
              p == EntryOf(m.preview, g.baseId)
          IN /\ g' = m.g
             /\ preview' = m.preview
             /\ dragging' = m.dragging
             /\ edgeTimer' = m.edgeTimer
             /\ events' = IF p.startMins # Null
                          THEN StoreUpdate(events, g.baseId,
                                 ComputeMoveWithinDay(events[g.baseId],
                                     viewDate * MinutesPerDay, p.startMins))
                          ELSE events
             /\ hist' = IF p.startMins # Null THEN Call(hist, "update", g.baseId) ELSE hist
    /\ UNCHANGED <<view, viewDate, nextId>>
    /\ UNCHANGED <<laneVars, expVars, flVars, cmVars, ptVars, g2, toasts>>

\* window pointermove while the gesture's listeners are registered
PointerMove ==
    /\ g.phase = "down"
    /\ \E ev \in PointerEvents(view, g) :
          LET m == MoveResult(view, g, preview, dragging, edgeTimer, ev)
          IN /\ g' = m.g
             /\ preview' = m.preview
             /\ dragging' = m.dragging
             /\ edgeTimer' = m.edgeTimer
    /\ UNCHANGED <<view, viewDate, events, nextId, hist>>
    /\ UNCHANGED <<laneVars, expVars, flVars, cmVars, ptVars, g2, toasts>>

\* the view's cleanup at the end of onDragEnd / onResizeEnd
Cleanup(p, dr, timer) ==
    /\ preview' = IF g.kind = "drag" THEN ClearStart(p, g.baseId) ELSE ClearEnd(p, g.baseId)
    /\ dragging' = IF g.kind = "drag" THEN Null ELSE dr
    /\ edgeTimer' = IF view = "day" /\ g.kind = "resize" THEN timer ELSE 0
    /\ g' = NoGesture

\* DayView onDragEnd / onResizeEnd: moveEvent / resizeEvent (update not awaited)
\* and then the cleanup
DayEnd(m, h) ==
    LET b == g.baseId
        p == EntryOf(m.preview, b)
        mins == IF g.kind = "drag" THEN p.startMins ELSE p.endMins
        commits == mins # Null /\ b \in DOMAIN events
        patch == IF g.kind = "drag"
                 THEN ComputeMoveWithinDay(events[b], viewDate * MinutesPerDay, mins)
                 ELSE ComputeResizeWithinDay(events[b], viewDate * MinutesPerDay, mins)
    IN \E ok \in BOOLEAN :
          /\ events' = IF commits /\ ok THEN StoreUpdate(events, b, patch) ELSE events
          /\ hist' = IF commits
                     THEN [Call(h, "update", b) EXCEPT
                              !.outcome = IF ok THEN "committed" ELSE "rejected"]
                     ELSE [h EXCEPT !.outcome = "nothing"]
          /\ Cleanup(m.preview, m.dragging, m.edgeTimer)
          /\ UNCHANGED nextId

\* actions.remove(id) -> removeEvent
StoreRemove(evs, id) == MapDel(evs, id)

\* the toast of a detachment: its onAction closure holds created.id, parent.id
\* and prevEx; exdate is the exclusion that edit added (e.start), kept for the
\* properties
UndoToast(created, parentId, prevEx, exdate) ==
    [created |-> created, parentId |-> parentId, prevEx |-> prevEx, exdate |-> exdate]

\* pushToast: setToasts((prev) => [...prev, item])
PushToast(ts, t) == Append(ts, t)

\* dismissToast of the k-th toast shown
DismissToast(ts, k) == SubSeq(ts, 1, k - 1) \o SubSeq(ts, k + 1, Len(ts))

\* a detached copy that keeps the series' rule and exclusions
MutDetachedPayload(parent, s, e) ==
    [parent EXCEPT !.id = Null, !.parentId = parent.id, !.start = s, !.end = e]

\* const detached = { ...parent, parentId: parent.id, rrule: undefined,
\*                    exdates: undefined, start, end }, without its id
DetachedPayload(parent, s, e) ==
    [parent EXCEPT !.id = Null, !.parentId = parent.id, !.rrule = "",
                   !.exdates = <<>>, !.start = s, !.end = e]

\* start of the detached instance: drag puts it at rangeStart + dayIdx days +
\* startMins, resize keeps the occurrence's start
DetachedStart(kind, o, weekStart, dayIdx, p) ==
    IF kind = "drag" THEN (weekStart + dayIdx) * MinutesPerDay + p.startMins
    ELSE o.start

\* end of the detached instance: drag keeps the occurrence's duration, resize
\* puts it at rangeStart + dayIdx days + endMins
DetachedEnd(kind, o, weekStart, dayIdx, p) ==
    IF kind = "drag"
    THEN DetachedStart(kind, o, weekStart, dayIdx, p) + (o.end - o.start)
    ELSE (weekStart + dayIdx) * MinutesPerDay + p.endMins

\* WeekView onDragEnd / onResizeEnd up to its first await (or to its end when
\* nothing is awaited)
WeekEnd(m, h) ==
    LET b == g.baseId
        o == g.occ
        p == EntryOf(m.preview, b)
        mins == IF g.kind = "drag" THEN p.startMins ELSE p.endMins
        dayIdx == IF p.dayIndex # Null THEN p.dayIndex ELSE g.col
        weekStart == WeekStartDay(viewDate)
        found == b \in DOMAIN events
    IN IF mins # Null /\ o.sourceId # Null /\ found /\ events[b].rrule # ""
       THEN \E ok \in BOOLEAN :
              /\ events' = IF ok
                           THEN StoreUpdate(events, b,
                                  [exdates |-> Append(events[b].exdates, o.start)])
                           ELSE events
              /\ g' = [m.g EXCEPT !.phase = "awaitUpdate", !.ok = ok,
                          !.rangeStart = weekStart,
                          !.prevEx = events[b].exdates,
                          !.payload = DetachedPayload(events[b],
                              DetachedStart(g.kind, o, weekStart, dayIdx, p),
                              DetachedEnd(g.kind, o, weekStart, dayIdx, p))]
              /\ hist' = Call(h, "update", b)
              /\ preview' = m.preview
              /\ dragging' = m.dragging
              /\ edgeTimer' = m.edgeTimer
              /\ UNCHANGED nextId
       ELSE LET commits == mins # Null /\ o.sourceId = Null /\ found
                patch == IF g.kind = "drag"
                         THEN ComputeMoveToDay(events[b], weekStart * MinutesPerDay,
                                               dayIdx, mins)
                         ELSE ComputeResizeToDay(events[b], weekStart * MinutesPerDay,
                                                 dayIdx, mins)
            IN \E ok \in BOOLEAN :
                 /\ events' = IF commits /\ ok THEN StoreUpdate(events, b, patch)
                              ELSE events
                 /\ hist' = IF commits
                            THEN [Call(h, "update", b) EXCEPT
                                     !.outcome = IF ok THEN "committed" ELSE "rejected"]
                            ELSE [h EXCEPT !.outcome = "nothing"]
                 /\ Cleanup(m.preview, m.dragging, m.edgeTimer)
                 /\ UNCHANGED nextId

\* utils/pointer onUpH, registered for pointerup and for pointercancel alike: a
\* final onMove with the releasing event, removal of the listeners, then onUp
\* (EventBlock: onDragEnd only if the drag had started; onResizeEnd always)
Release(how, ev) ==
    LET m == MoveResult(view, g, preview, dragging, edgeTimer, ev)
        h == [hist EXCEPT !.released = how, !.moved = m.g.moved]
    IN IF g.kind = "drag" /\ ~m.g.started
       THEN /\ g' = NoGesture
            /\ preview' = m.preview
            /\ dragging' = m.dragging
            /\ edgeTimer' = m.edgeTimer
            /\ hist' = [h EXCEPT !.outcome = "noDrag"]
            /\ UNCHANGED <<events, nextId>>
       ELSE IF view = "day" THEN DayEnd(m, h) ELSE WeekEnd(m, h)

\* window pointerup
PointerUp ==
    /\ g.phase = "down"
    /\ \E ev \in PointerEvents(view, g) : Release("up", ev)
    /\ UNCHANGED <<view, viewDate>>
    /\ UNCHANGED <<laneVars, expVars, flVars, cmVars, ptVars, g2, toasts>>

\* window pointercancel
PointerCancel ==
    /\ g.phase = "down"
    /\ \E ev \in PointerEvents(view, g) : Release("cancel", ev)
    /\ UNCHANGED <<view, viewDate>>
    /\ UNCHANGED <<laneVars, expVars, flVars, cmVars, ptVars, g2, toasts>>

\* await actions.update(parent.id, { exdates }) settles: on rejection the end
\* handler stops there; otherwise it calls actions.add(payload) and awaits it
UpdateSettled ==
    /\ g.phase = "awaitUpdate"
    /\ IF ~g.ok
       THEN /\ g' = NoGesture
            /\ hist' = [hist EXCEPT !.outcome = "rejected"]
            /\ UNCHANGED <<events, nextId>>
       ELSE \E ok \in BOOLEAN :
              /\ events' = IF ok THEN StoreAdd(events, g.payload, nextId) ELSE events
              /\ nextId' = nextId + 1
              /\ hist' = [Call(hist, "add", nextId) EXCEPT
                             !.created = IF ok THEN nextId ELSE Null]
              /\ g' = [g EXCEPT !.phase = "awaitAdd", !.ok = ok]
    /\ UNCHANGED <<view, viewDate, preview, dragging, edgeTimer>>
    /\ UNCHANGED <<laneVars, expVars, flVars, cmVars, ptVars, g2, toasts>>

\* await actions.add(payload) settles: on rejection the end handler stops there;
\* otherwise the Undo toast is pushed and the cleanup runs
AddSettled ==
    /\ g.phase = "awaitAdd"
    /\ IF ~g.ok
       THEN /\ g' = NoGesture
            /\ hist' = [hist EXCEPT !.outcome = "rejected"]
            /\ UNCHANGED <<preview, dragging, edgeTimer, toasts>>
       ELSE /\ toasts' = PushToast(toasts, UndoToast(hist.created, g.baseId, g.prevEx,
                                                     g.occ.start))
            /\ Cleanup(preview, dragging, edgeTimer)
            /\ hist' = [hist EXCEPT !.outcome = "detached"]
    /\ UNCHANGED <<view, viewDate, events, nextId>>
    /\ UNCHANGED <<laneVars, expVars, flVars, cmVars, ptVars, g2>>

\* the setInterval callback of startEdgeNav: one day in DayView, one week in
\* WeekView, in the timer's direction
EdgeTimerFire ==
    /\ edgeTimer # 0
    /\ LET step == IF view = "day" THEN 1 ELSE WeekDays
           next == viewDate + edgeTimer * step
       IN /\ next >= InitViewDay - MaxNav * step
          /\ next <= InitViewDay + MaxNav * step
          /\ viewDate' = next
    /\ UNCHANGED <<view, events, nextId, preview, dragging, edgeTimer, g, hist>>
    /\ UNCHANGED <<laneVars, expVars, flVars, cmVars, ptVars, g2, toasts>>

\* the app mounted on DayView or WeekView, nothing in progress
Init ==
    /\ view \in {"day", "week"}
    /\ viewDate = InitViewDay
    /\ events = InitEvents
    /\ nextId = 3
    /\ preview = <<>>
    /\ dragging = Null
    /\ edgeTimer = 0
    /\ g = NoGesture
    /\ g2 = NoGesture
    /\ toasts = <<>>
    /\ hist = NoHistory
    /\ laneIn = NoLaneInput /\ laneOut = NoLaneResult
    /\ expIn = <<>> /\ expRange = <<0, 0>> /\ expOut = NoExpandResult
    /\ flIn = NoFilterInput /\ flOut = NoFilterResult
    /\ cmIn = NoCmInput /\ cmOut = NoCmResult
    /\ ptIn = NoPtInput /\ ptOut = NoPtResult

Next ==
    \/ PointerDownDrag \/ PointerDownResize \/ PointerMove \/ PointerUp
    \/ PointerCancel \/ UpdateSettled \/ AddSettled \/ EdgeTimerFire

Spec == Init /\ [][Next]_vars

(***************************************************************************)
(* A second pointer-down while a gesture is in progress.  EventBlock's     *)
(* onPointerDown tests only props.draggable (the resize handle tests       *)
(* nothing), and the listeners it registers on window do not look at the   *)
(* pointer id.                                                             *)
(***************************************************************************)
\* onPointerDown on a block while g's pointer is down (another pointer) or while
\* g's end handler awaits the store (the same pointer, pressed again)
PointerDownSecond ==
    /\ g.kind # "none"
    /\ g2.kind = "none"
    /\ \E kind \in {"drag", "resize"}, b \in Blocks(view, viewDate, events) :
          /\ HasBlock(b[1], b[2])
          /\ IF kind = "drag" THEN Draggable(view, b[1], b[2])
             ELSE Resizable(view, b[1], b[2])
          /\ g2' = [NoGesture EXCEPT !.kind = kind, !.occ = b[1], !.baseId = BaseId(b[1]),
                                     !.col = ColumnOf(view, viewDate, b[2]),
                                     !.phase = "down"]
    /\ UNCHANGED <<view, viewDate, events, nextId, preview, dragging, edgeTimer, g, hist>>
    /\ UNCHANGED <<laneVars, expVars, flVars, cmVars, ptVars, toasts>>

\* window pointermove with both gestures' state alive: every registered onMoveH
\* runs, in the order of registration
OverlapPointerMove ==
    /\ g2.phase = "down"
    /\ \E ev \in PointerEvents(view, g2) :
          LET m1 == IF g.phase = "down"
                    THEN MoveResult(view, g, preview, dragging, edgeTimer, ev)
                    ELSE [g |-> g, preview |-> preview, dragging |-> dragging,
                          edgeTimer |-> edgeTimer]
              m2 == MoveResult(view, g2, m1.preview, m1.dragging, m1.edgeTimer, ev)
          IN /\ g' = m1.g
             /\ g2' = m2.g
             /\ preview' = m2.preview
             /\ dragging' = m2.dragging
             /\ edgeTimer' = m2.edgeTimer
    /\ UNCHANGED <<view, viewDate, events, nextId, hist>>
    /\ UNCHANGED <<laneVars, expVars, flVars, cmVars, ptVars, toasts>>

\* the steps of one gesture alone
SingleGestureStep == g2.kind = "none" /\ Next

\* the first gesture's end handler goes on while the second gesture is held
FirstHandlerStep == g2.kind # "none" /\ (UpdateSettled \/ AddSettled)

NextOverlap ==
    \/ SingleGestureStep \/ PointerDownSecond \/ OverlapPointerMove
    \/ FirstHandlerStep

SpecOverlap == Init /\ [][NextOverlap]_vars

(***************************************************************************)
(* DayView: the onKeyDown handler of a focused block                       *)
(***************************************************************************)
Keys == {"ArrowUp", "ArrowDown", "ArrowLeft", "ArrowRight", "Delete"}

\* the patch the handler sends for an arrow key on occurrence o shown on day
\* (moveEvent / resizeEvent on the base event), or <<>> when it sends none
KeyPatch(key, o, day, base) ==
    LET sM == MinuteOfDay(o.start)
        enM == MinuteOfDay(o.end)
    IN IF key = "ArrowUp" /\ IsStartSegment(o, day)
       THEN ComputeMoveWithinDay(base, day * MinutesPerDay, sM - SNAP_MIN)
       ELSE IF key = "ArrowDown" /\ IsStartSegment(o, day)
       THEN ComputeMoveWithinDay(base, day * MinutesPerDay, sM + SNAP_MIN)
       ELSE IF key = "ArrowLeft" /\ IsEndSegment(o, day)
       THEN ComputeResizeWithinDay(base, day * MinutesPerDay,
                                   Max(sM + SNAP_MIN, enM - SNAP_MIN))
       ELSE IF key = "ArrowRight" /\ IsEndSegment(o, day)
       THEN ComputeResizeWithinDay(base, day * MinutesPerDay, enM + SNAP_MIN)
       ELSE <<>>

\* a key pressed on a focused block of the Day view; the store call is not
\* awaited and may fail.  hist records the press: its number, the base id and
\* the key
KeyDown ==
    /\ view = "day"
    /\ g.kind = "none"
    /\ hist.count < MaxKeys
    /\ \E key \in Keys, b \in Blocks(view, viewDate, events), ok \in BOOLEAN :
          LET o == b[1]
              id == BaseId(o)
              patch == KeyPatch(key, o, b[2], events[id])
          IN /\ HasBlock(o, b[2])
             /\ events' = IF ~ok THEN events
                          ELSE IF key = "Delete" THEN MapDel(events, id)
                          ELSE IF patch = <<>> THEN events
                          ELSE StoreUpdate(events, id, patch)
             /\ hist' = [NoHistory EXCEPT !.count = hist.count + 1, !.baseId = id,
                                          !.ofSeries = o.sourceId # Null,
                                          !.outcome = key]
    /\ UNCHANGED <<view, viewDate, nextId, preview, dragging, edgeTimer, g, g2>>
    /\ UNCHANGED <<laneVars, expVars, flVars, cmVars, ptVars, toasts>>

\* starts of the plain event: midnight, on the snap grid, off the snap grid
KeyStarts == {0, ExpStart, ExpStart + CmStep}

\* the days the Day view is opened on: the plain event's, the series' first
\* instance's, the series' second instance's
KeyViewDays == {InitViewDay, DayOf(InitEvents[2].start), DayOf(InitEvents[2].start) + WeekDays}

InitKeyboard ==
    /\ view = "day"
    /\ viewDate \in KeyViewDays
    /\ \E s \in KeyStarts :
          events = [InitEvents EXCEPT ![1].start = InitViewDay * MinutesPerDay + s,
                                      ![1].end = InitViewDay * MinutesPerDay + s + ExpDuration]
    /\ nextId = 3
    /\ preview = <<>>
    /\ dragging = Null
    /\ edgeTimer = 0
    /\ g = NoGesture
    /\ g2 = NoGesture
    /\ toasts = <<>>
    /\ hist = NoHistory
    /\ laneIn = NoLaneInput /\ laneOut = NoLaneResult
    /\ expIn = <<>> /\ expRange = <<0, 0>> /\ expOut = NoExpandResult
    /\ flIn = NoFilterInput /\ flOut = NoFilterResult
    /\ cmIn = NoCmInput /\ cmOut = NoCmResult
    /\ ptIn = NoPtInput /\ ptOut = NoPtResult

NextKeyboard == KeyDown

SpecKeyboard == InitKeyboard /\ [][NextKeyboard]_vars

\* C27: ArrowUp / ArrowDown on a focused block of the Day view changes the
\* event's stored start by exactly SNAP_MIN minutes, earlier or later, and
\* leaves its duration unchanged.
C27_ArrowKeyNudgesStart ==
    [][(hist'.count = hist.count + 1 /\ hist'.outcome \in {"ArrowUp", "ArrowDown"}) =>
          LET id == hist'.baseId
              by == IF hist'.outcome = "ArrowUp" THEN 0 - SNAP_MIN ELSE SNAP_MIN
          IN /\ id \in DOMAIN events'
             /\ events'[id].start = events[id].start + by
             /\ events'[id].end - events'[id].start = events[id].end - events[id].start]_vars

\* C25: at any moment at most one drag or resize gesture is in progress for a
\* given base event id.
C25_OneGesturePerBaseId ==
    ~(g.kind # "none" /\ g2.kind # "none" /\ g.baseId = g2.baseId)

(***************************************************************************)
(* WeekView: the Undo toast of a detachment                                *)
(***************************************************************************)
\* a whole Week-view gesture on an occurrence of a series whose two store calls
\* succeed: pointer-down on the block, a move past the threshold to ev, release
\* there, onDragEnd / onResizeEnd from its first line to pushToast and cleanup
DetachOccurrence ==
    /\ view = "week"
    /\ g.kind = "none"
    /\ nextId - 1 - Cardinality(DOMAIN InitEvents) < MaxDetach
    /\ \E kind \in {"drag", "resize"}, b \in Blocks(view, viewDate, events),
          ev \in PointerEvents(view, NoGesture) :
          LET o == b[1]
              id == BaseId(o)
              p == IF kind = "drag"
                   THEN EntryOf(DragMovePreview(view, preview, id, ev), id)
                   ELSE EntryOf(ResizeMovePreview(view, preview, id, ev), id)
              weekStart == WeekStartDay(viewDate)
              prevEx == events[id].exdates
              payload == DetachedPayload(events[id],
                             DetachedStart(kind, o, weekStart, p.dayIndex, p),
                             DetachedEnd(kind, o, weekStart, p.dayIndex, p))
          IN /\ HasBlock(o, b[2])
             /\ o.sourceId # Null
             /\ events[id].rrule # ""
             /\ IF kind = "drag" THEN Draggable(view, o, b[2]) ELSE Resizable(view, o, b[2])
             /\ events' = StoreAdd(StoreUpdate(events, id,
                                       [exdates |-> Append(prevEx, o.start)]),
                                   payload, nextId)
             /\ nextId' = nextId + 1
             /\ toasts' = PushToast(toasts, UndoToast(nextId, id, prevEx, o.start))
    /\ UNCHANGED <<view, viewDate, preview, dragging, edgeTimer, g, g2, hist>>
    /\ UNCHANGED <<laneVars, expVars, flVars, cmVars, ptVars>>

\* the Undo button of the k-th toast: t.onAction(), then dismissToast(t.id);
\* onAction is actions.remove(created.id); actions.update(parent.id, { exdates: prevEx })
UndoClick ==
    /\ g.kind = "none"
    /\ \E k \in 1..Len(toasts) :
          /\ events' = StoreUpdate(StoreRemove(events, toasts[k].created),
                                   toasts[k].parentId, [exdates |-> toasts[k].prevEx])
          /\ toasts' = DismissToast(toasts, k)
    /\ UNCHANGED <<view, viewDate, nextId, preview, dragging, edgeTimer, g, g2, hist>>
    /\ UNCHANGED <<laneVars, expVars, flVars, cmVars, ptVars>>

\* the app's keydown handler: ArrowLeft / ArrowRight shows the previous / next
\* week while the Week view is mounted
ArrowKeyWeek ==
    /\ view = "week"
    /\ g.kind = "none"
    /\ \E delta \in {-1, 1} :
          /\ viewDate + delta * WeekDays >= InitViewDay - MaxNav * WeekDays
          /\ viewDate + delta * WeekDays <= InitViewDay + MaxNav * WeekDays
          /\ viewDate' = viewDate + delta * WeekDays
    /\ UNCHANGED <<view, events, nextId, preview, dragging, edgeTimer, g, g2, hist, toasts>>
    /\ UNCHANGED <<laneVars, expVars, flVars, cmVars, ptVars>>

InitUndo ==
    /\ view = "week"
    /\ viewDate = InitViewDay
    /\ events = InitEvents
    /\ nextId = 3
    /\ preview = <<>>
    /\ dragging = Null
    /\ edgeTimer = 0
    /\ g = NoGesture
    /\ g2 = NoGesture
    /\ toasts = <<>>
    /\ hist = NoHistory
    /\ laneIn = NoLaneInput /\ laneOut = NoLaneResult
    /\ expIn = <<>> /\ expRange = <<0, 0>> /\ expOut = NoExpandResult
    /\ flIn = NoFilterInput /\ flOut = NoFilterResult
    /\ cmIn = NoCmInput /\ cmOut = NoCmResult
    /\ ptIn = NoPtInput /\ ptOut = NoPtResult

NextUndo == DetachOccurrence \/ UndoClick \/ ArrowKeyWeek

SpecUndo == InitUndo /\ [][NextUndo]_vars

\* the exdates of a series without the exclusion x
WithoutExdate(ex, x) == SelectSeq(ex, LAMBDA d : d # x)

\* the store after the edit of toast t is taken back and nothing else is
EventsWithoutEdit(t) ==
    [id \in (DOMAIN events) \ {t.created} |->
        IF id = t.parentId
        THEN [events[id] EXCEPT !.exdates = WithoutExdate(@, t.exdate)]
        ELSE events[id]]

\* C29: Undo on the toast of a detachment removes exactly the detached event
\* that edit created and exactly the exdate that edit added; every other event
\* and every other exdate of the series, those of later detachments included,
\* stays as it was.
C29_UndoTakesBackOneEdit ==
    [][\A k \in 1..Len(toasts) :
          (Len(toasts') = Len(toasts) - 1 /\ toasts' = DismissToast(toasts, k))
             => events' = EventsWithoutEdit(toasts[k])]_vars

(***************************************************************************)
(* Claims about the gesture protocol                                       *)
(***************************************************************************)
\* the pointer has been released and the end handler has run to its end
GestureOver == g.kind = "none" /\ hist.released # "no"

\* C2 as stated: during one gesture the store is called at most once, and never
\* before the pointer is released
C2_AtMostOneStoreCall ==
    /\ Len(hist.calls) <= 1
    /\ \A k \in 1..Len(hist.calls) : hist.calls[k].afterRelease

\* C2 amended: no store call is made before the pointer is released; a gesture on
\* a plain event makes at most one call, an update of that event; a gesture on an
\* occurrence of a series makes at most two, an update of the series followed by
\* one add; remove is never called
C2_StoreCallsOnlyAfterRelease ==
    /\ \A k \in 1..Len(hist.calls) : hist.calls[k].afterRelease
    /\ Len(hist.calls) <= IF hist.ofSeries THEN 2 ELSE 1
    /\ Len(hist.calls) >= 1 =>
          hist.calls[1].op = "update" /\ hist.calls[1].id = hist.baseId
    /\ Len(hist.calls) = 2 => hist.calls[2].op = "add"

C2_Witness ==
    /\ GestureOver
    /\ hist.outcome = "detached"
    /\ Len(hist.calls) = 2

\* the fields of the gesture's event that a commit of kind k may change
PatchFields(k) == IF k = "resize" THEN {"end"} ELSE {"start", "end"}

\* every stored event stays stored, and only the fields in own of the event
\* with the given id change
OnlyChanges(id, own) ==
    \A x \in DOMAIN events :
        /\ x \in DOMAIN events'
        /\ \A f \in DOMAIN events[x] :
              (x # id \/ f \notin own) => events'[x][f] = events[x][f]

\* C22 as stated: a resize commit changes only the event's end and a move commit
\* only its start and end; every other field of that event and every other
\* stored event is the same after the commit.
C22_CommitChangesOnlyStartEnd ==
    [][events' # events => /\ DOMAIN events' = DOMAIN events
                           /\ OnlyChanges(g.baseId, PatchFields(g.kind))]_vars

\* C22 amended: a commit on an event that is not an occurrence of a series
\* changes only that event's end (resize) or start and end (move); a commit on
\* an occurrence of a series changes only the series' exdates, then adds one
\* event; every other field and every other stored event is the same.
C22_CommitFrame ==
    [][events' # events =>
          IF g.occ.sourceId = Null
          THEN DOMAIN events' = DOMAIN events /\ OnlyChanges(g.baseId, PatchFields(g.kind))
          ELSE IF g.phase = "down"
               THEN DOMAIN events' = DOMAIN events /\ OnlyChanges(g.baseId, {"exdates"})
               ELSE DOMAIN events' = DOMAIN events \cup {nextId} /\ OnlyChanges(Null, {})]_vars

\* a committed resize of the plain event: its end moved, its start and the
\* series are as they were
C22_Witness ==
    /\ GestureOver
    /\ hist.outcome = "committed"
    /\ g.kind = "none"
    /\ events[1].end # InitEvents[1].end
    /\ events[1].start = InitEvents[1].start
    /\ events[2] = InitEvents[2]

\* C3: once a drag or resize gesture is over, the preview map has no entry for
\* the gesture's base id
C3_NoPreviewAfterGesture == GestureOver => hist.baseId \notin DOMAIN preview

\* C4: a gesture ended by pointercancel makes no store call
C4_CancelSendsNoPatch == hist.released = "cancel" => hist.calls = <<>>

\* C5: once the drag or resize of an occurrence of a series is committed, the
\* series' start, end and rrule are what they were, its exdates are the old ones
\* plus the instance's start, and exactly one event was inserted: it has the
\* series' id as parentId, no rrule, and the start and end shown by the preview
C5_DetachKeepsSeriesAddsInstance ==
    (g.phase = "awaitAdd" /\ g.ok) =>
        LET b == g.baseId
            n == hist.created
            p == EntryOf(preview, b)
            day == g.rangeStart + (IF p.dayIndex # Null THEN p.dayIndex ELSE g.col)
        IN /\ events[b].start = hist.series.start
           /\ events[b].end = hist.series.end
           /\ events[b].rrule = hist.series.rrule
           /\ events[b].exdates = Append(hist.series.exdates, g.occ.start)
           /\ (DOMAIN events) \ hist.ids = {n}
           /\ events[n].parentId = b
           /\ events[n].rrule = ""
           /\ g.kind = "drag" =>
                 /\ events[n].start = day * MinutesPerDay + p.startMins
                 /\ events[n].end = events[n].start + (g.occ.end - g.occ.start)
           /\ g.kind = "resize" =>
                 /\ events[n].start = g.occ.start
                 /\ events[n].end = day * MinutesPerDay + p.endMins

C5_Witness ==
    /\ g.phase = "awaitAdd" /\ g.ok
    /\ g.kind = "drag"
    /\ events[hist.created].start # g.occ.start

\* C6: once a gesture is over, no edge navigation timer is running
C6_NoTimerAfterGesture == GestureOver => edgeTimer = 0

\* C30: a pointer-down on the body of an event block followed by a release,
\* with no pointer event of the gesture more than 2 px from where the pointer
\* went down, starts no drag: onDragStart is not called (dragging keeps its
\* value), no preview entry is written, the store is not called, and onDragEnd
\* is not called.
C30_NoDragBelowThreshold ==
    [][(/\ hist'.kind = "drag"
        /\ ~(IF g'.kind # "none" THEN g'.moved ELSE hist'.moved))
          => /\ dragging' = dragging
             /\ preview' = preview
             /\ events' = events
             /\ nextId' = nextId
             /\ hist'.calls = <<>>
             /\ hist'.outcome \in {"none", "noDrag"}
             /\ g'.phase \in {"down", "idle"}]_vars

\* a drag gesture was released, by pointerup, and no event of it was more than
\* 2 px away
C30_Witness ==
    /\ hist.kind = "drag"
    /\ hist.released = "up"
    /\ ~hist.moved
    /\ g.kind = "none"

\* C28: every stored event has its end later than its start: the store starts
\* that way and every drag or resize commit, the detached copy of a Week-view
\* resize included, keeps it so.
C28_EndAfterStart == \A id \in DOMAIN events : events[id].end > events[id].start

\* C24: whenever the edge-navigation timer fires during a gesture, the visible
\* date advances by exactly one day (Day view) or one week (Week view) toward
\* the edge whose margin holds the pointer's most recent position; and the timer
\* stays set while the pointer stays in that margin and the gesture goes on.
C24_TimerFollowsPointerEdge ==
    [][/\ (g.phase = "down" /\ viewDate' # viewDate) =>
             /\ g.edge # <<>>
             /\ g.edge[1] # 0
             /\ viewDate' = viewDate + g.edge[1] * (IF view = "day" THEN 1 ELSE WeekDays)
       /\ (g.phase = "down" /\ g'.phase = "down" /\ edgeTimer # 0 /\ g'.edge = g.edge)
             => edgeTimer' = edgeTimer]_vars

(***************************************************************************)
(* Specifications of the pure parts                                        *)
(***************************************************************************)
InitLanes ==
    /\ laneIn \in [order : LaneIdOrders, segs : {<<>>}]
    /\ laneOut = NoLaneResult
    /\ expIn = <<>> /\ expRange = <<0, 0>> /\ expOut = NoExpandResult
    /\ flIn = NoFilterInput /\ flOut = NoFilterResult
    /\ cmIn = NoCmInput /\ cmOut = NoCmResult
    /\ ptIn = NoPtInput /\ ptOut = NoPtResult
    /\ view = "day" /\ viewDate = 0 /\ events = <<>> /\ nextId = 0 /\ preview = <<>>
    /\ dragging = Null /\ edgeTimer = 0 /\ g = NoGesture /\ g2 = NoGesture /\ hist = NoHistory
    /\ toasts = <<>>

NextLanes == AddSegment \/ AddSketch \/ CallAssignLanes

SpecLanes == InitLanes /\ [][NextLanes]_vars

InitExpand ==
    /\ expIn = <<>> /\ expRange \in ExpRanges /\ expOut = NoExpandResult
    /\ flIn = NoFilterInput /\ flOut = NoFilterResult
    /\ laneIn = NoLaneInput /\ laneOut = NoLaneResult
    /\ cmIn = NoCmInput /\ cmOut = NoCmResult
    /\ ptIn = NoPtInput /\ ptOut = NoPtResult
    /\ view = "day" /\ viewDate = 0 /\ events = <<>> /\ nextId = 0 /\ preview = <<>>
    /\ dragging = Null /\ edgeTimer = 0 /\ g = NoGesture /\ g2 = NoGesture /\ hist = NoHistory
    /\ toasts = <<>>

NextExpand == AddEvent \/ CallExpand

SpecExpand == InitExpand /\ [][NextExpand]_vars

InitFilter ==
    /\ flIn \in [items : {<<>>}, opts : [query : FilterQueries, categories : FilterCategories]]
    /\ flOut = NoFilterResult
    /\ laneIn = NoLaneInput /\ laneOut = NoLaneResult
    /\ expIn = <<>> /\ expRange = <<0, 0>> /\ expOut = NoExpandResult
    /\ cmIn = NoCmInput /\ cmOut = NoCmResult
    /\ ptIn = NoPtInput /\ ptOut = NoPtResult
    /\ view = "day" /\ viewDate = 0 /\ events = <<>> /\ nextId = 0 /\ preview = <<>>
    /\ dragging = Null /\ edgeTimer = 0 /\ g = NoGesture /\ g2 = NoGesture /\ hist = NoHistory
    /\ toasts = <<>>

NextFilter == AddOccurrence \/ CallFilterEvents

SpecFilter == InitFilter /\ [][NextFilter]_vars

InitCommit ==
    /\ cmIn \in CmInputs /\ cmOut = NoCmResult
    /\ laneIn = NoLaneInput /\ laneOut = NoLaneResult
    /\ expIn = <<>> /\ expRange = <<0, 0>> /\ expOut = NoExpandResult
    /\ flIn = NoFilterInput /\ flOut = NoFilterResult
    /\ ptIn = NoPtInput /\ ptOut = NoPtResult
    /\ view = "day" /\ viewDate = 0 /\ events = <<>> /\ nextId = 0 /\ preview = <<>>
    /\ dragging = Null /\ edgeTimer = 0 /\ g = NoGesture /\ g2 = NoGesture /\ hist = NoHistory
    /\ toasts = <<>>

NextCommit ==
    \/ CallResizeWithinDay \/ CallMoveWithinDay \/ CallResizeToDay
    \/ CallMoveThereAndBack \/ CallClampEvent

SpecCommit == InitCommit /\ [][NextCommit]_vars

InitPointer ==
    /\ ptIn \in PtInputs /\ ptOut = NoPtResult
    /\ laneIn = NoLaneInput /\ laneOut = NoLaneResult
    /\ expIn = <<>> /\ expRange = <<0, 0>> /\ expOut = NoExpandResult
    /\ flIn = NoFilterInput /\ flOut = NoFilterResult
    /\ cmIn = NoCmInput /\ cmOut = NoCmResult
    /\ view = "day" /\ viewDate = 0 /\ events = <<>> /\ nextId = 0 /\ preview = <<>>
    /\ dragging = Null /\ edgeTimer = 0 /\ g = NoGesture /\ g2 = NoGesture /\ hist = NoHistory
    /\ toasts = <<>>

NextPointer ==
    \/ DayDragSample \/ DayResizeSample \/ WeekDragSample
    \/ WeekResizeSample \/ SelectStartSample \/ SelectCurSample
    \/ SetStartSample \/ SetEndSample \/ GridRoundTrip

SpecPointer == InitPointer /\ [][NextPointer]_vars

====
